---- MODULE Spec2Model ----
(***************************************************************************)
(* A model of the aquatone pipeline: the driver (processTargets), the      *)
(* event bus, the session wait-group, the TCP port scanner, the URL        *)
(* publisher, the URL requester and the URL screenshotter.                 *)
(*                                                                         *)
(* A work item of the pipeline is a "unit" <<i, p>>: target number i and   *)
(* port p.  A target given as a URL has the single unit <<i, 0>>; the bus  *)
(* handler of the Host event of target i is keyed <<i, 0>> too.            *)
(***************************************************************************)
EXTENDS Integers, Sequences, FiniteSets, TLC

(* ------------------------------ bounds -------------------------------- *)
\* most units (host targets x ports + URL targets) of one run
MaxUnits == 2
\* most port scans of one run when the later stages run too
MaxScans == 1
\* most goroutines working on one Page at a time
MaxWriters == 2
\* largest value given with --threads
MaxThreads == 1
\* the number of CPUs the auto setting of --threads resolves to
NumCPU == 2
\* pages of a clustering pass
MaxPages == 3
\* runs of analyzePages on one session
MaxPasses == 2

\* target i names host HostNames[i]
HostNames == <<"a", "b", "c">>
PortUniverse == {80, 443, 8080}
\* the configured port lists that are tried
PortLists == {<<80, 443>>, <<8080>>}
\* "" is a bare host name; the others are URL schemes
TargetSchemes == {"", "http"}

(* ------------------------- program constants -------------------------- *)
\* the retry loop of the port scanner: attempts < 2
MaxAttempts == 2
\* the similarity, in percent, below which a cluster refuses a page
SimilarityThreshold == 80
\* the semaphore depth Register uses when Options.Threads is nil
DefaultConcurrentScans == 100
\* Options.Threads = nil
NilThreads == -1
\* the default of --screenshot-timeout
DefaultScreenshotTimeout == 30000
\* exitCode while the process runs
NoExit == -1

VARIABLES
    targets,      \* the target list: the scheme of each target ("": a host)
    stdin,        \* standard input: for each line, the targets found in it
    ports,        \* Session.Ports
    threadsFlag,  \* the --threads flag (0: not given)
    optThreads,   \* Options.Threads (NilThreads: the pointer is nil)
    mainPc,       \* the position of processTargets
    nextTarget,   \* the index of processTargets' loop over the targets
    awaited,      \* the handlers a pending WaitAsync call waits for
    handler,      \* bus: <<handler name, unit>> -> none/queued/running/done
    published,    \* history: <<topic, unit>> -> number of Publish calls
    wg,           \* Session.WaitGroup: its count
    dns,          \* target -> none/ok/fail: the result of net.LookupHost
    scanPc,       \* the port-scan goroutine of a unit
    results,      \* unit -> the results of its scanPort calls, in order
    scanWorker,   \* the number of tokens in the channel a.scanWorker
    portOpen,     \* Stats.PortOpen
    portClosed,   \* Stats.PortClosed
    classified,   \* unit -> none/open/closed: the log line of its port scan
    waitPc,       \* target -> the goroutine of OnHost that waits for its scans
    probe,        \* unit -> none/skipped/ok/failed: the TLS dial of isTLS
    urlArg,       \* unit -> the payload of its URL event ("" before it)
    reqPc,        \* the request goroutine of a unit
    pages,        \* Session.Pages: URL -> Page
    shotPc,       \* the screenshot goroutine of a unit
    screenshotSuccessful,   \* Stats.ScreenshotSuccessful
    screenshotFailed,       \* Stats.ScreenshotFailed
    tempDir,      \* the temporary Chrome profile directory exists
    chromeRan,    \* unit -> the ms its Chrome process ran (0: not started)
    pgOp,         \* goroutine -> the Page operation it performs
    pgPc,         \* goroutine -> its position in that operation
    pgLock,       \* the goroutine holding the Page's mutex (0: unlocked)
    pg,           \* the Page the goroutines share
    screenshotTimeout,  \* Options.ScreenshotTimeout
    version,      \* Options.Version
    sessionPath,  \* Options.SessionPath is not empty
    bodyFile,     \* URL -> <<the structure of its saved body>>, <<>> if none
    exitCode,     \* the exit code of the process (NoExit while it runs)
    trace,        \* the steps main has completed, in order
    clusters,     \* Session.PageSimilarityClusters, a cluster per id
    visited,      \* the pages the clustering loop has visited
    passes,       \* the number of completed runs of analyzePages
    firstRun      \* the clusters the first run of analyzePages left

vars == <<targets, stdin, ports, threadsFlag, optThreads, mainPc, nextTarget, awaited, handler,
          published, wg, dns, scanPc, results, scanWorker, portOpen,
          portClosed, classified, waitPc, probe, urlArg, reqPc, pages, shotPc,
          screenshotSuccessful, screenshotFailed, tempDir, chromeRan, pgOp,
          pgPc, pgLock, pg, screenshotTimeout, version, sessionPath, bodyFile,
          exitCode, trace, clusters, visited, passes, firstRun>>

(* ------------------------------ inputs -------------------------------- *)
\* the target string made of a scheme and the host name of entry i
TargetOf(sch, i) ==
    IF sch = "" THEN HostNames[i] ELSE sch \o "://" \o HostNames[i]

\* the target lists read from standard input: entry i is the bare host name
\* HostNames[i] or a URL of it
TargetLists ==
    UNION {{[i \in 1..n |-> TargetOf(f[i], i)] : f \in [1..n -> TargetSchemes]} :
           n \in 1..MaxUnits}

\* the URLs of the pages whose file names are computed
FilenameURLs ==
    {"http://example.com", "https://example.com",
     "http://example.com/path", "http://example.com/path#section1",
     "http://example.com:8080/path", "http://EXAMPLE.com/Path",
     "http://my-host.com/", "http://1.2.3.4:8080/path",
     "https://sub.domain.example.com/resource", "http://h/a#b",
     "http://h/ab", "http://h/ab?q=1", "http://h/ab?q=2",
     "http://h/a?q=1#b", "http://[::1]/", "http://[::1]:8080/"}

\* the arguments of AddTag
TagTexts ==
    {"ab", "a"}

TagTypes ==
    {"c", "bc", "info"}

TagLinks ==
    {"", "http://x"}

\* the names and values of response headers
HeaderNames ==
    {"Server", "SERVER", "server", "X-XSS-Protection", "x-xss-protection",
     "Access-Control-Allow-Origin", "X-Content-Type-Options",
     "X-Permitted-Cross-Domain-Policies", "Strict-Transport-Security",
     "X-Powered-By", "Date"}

HeaderValues ==
    {"", "1", "1; mode=block", "0", "*", "https://example.com", "nosniff",
     "NoSniff", "master-only", "none"}

(* ----------------------- url.ParseRequestURI -------------------------- *)
Letters ==
    {"a", "b", "c", "d", "e", "f", "g", "h", "i", "j", "k", "l", "m",
     "n", "o", "p", "q", "r", "s", "t", "u", "v", "w", "x", "y", "z"}

SchemeMarks == {"0", "1", "2", "3", "4", "5", "6", "7", "8", "9", "+", "-", "."}

Char(str, i) == SubSeq(str, i, i)

HasPrefix(str, pre) ==
    Len(str) >= Len(pre) /\ SubSeq(str, 1, Len(pre)) = pre

\* getScheme of net/url from position i on: <<scheme, rest, error>>
RECURSIVE getSchemeFrom(_, _)
getSchemeFrom(str, i) ==
    IF i > Len(str) THEN <<"", str, FALSE>>
    ELSE IF Char(str, i) \in Letters THEN getSchemeFrom(str, i + 1)
    ELSE IF Char(str, i) \in SchemeMarks
         THEN IF i = 1 THEN <<"", str, FALSE>> ELSE getSchemeFrom(str, i + 1)
    ELSE IF Char(str, i) = ":"
         THEN IF i = 1 THEN <<"", "", TRUE>>
              ELSE <<SubSeq(str, 1, i - 1), SubSeq(str, i + 1, Len(str)), FALSE>>
    ELSE <<"", str, FALSE>>

getScheme(str) == getSchemeFrom(str, 1)

\* url.ParseRequestURI for strings without "?" and with a well-formed
\* authority: the error and the scheme of the result
ParseRequestURI(str) ==
    LET g == getScheme(str)
    IN  IF str = "" THEN [err |-> TRUE, Scheme |-> ""]
        ELSE IF str = "*" THEN [err |-> FALSE, Scheme |-> ""]
        ELSE IF g[3] THEN [err |-> TRUE, Scheme |-> ""]
        ELSE IF ~HasPrefix(g[2], "/")
             THEN IF g[1] # "" THEN [err |-> FALSE, Scheme |-> g[1]]
                  ELSE [err |-> TRUE, Scheme |-> ""]
        ELSE [err |-> FALSE, Scheme |-> g[1]]

isURL(str) ==
    LET u == ParseRequestURI(str) IN ~u.err /\ u.Scheme # ""

hasSupportedScheme(str) ==
    LET u == ParseRequestURI(str)
    IN  ~u.err /\ (u.Scheme = "http" \/ u.Scheme = "https")

\* the host given to OnHost for target i: the target string itself
TargetHost(i) == targets[i]

\* NmapParser.Parse: one "host:port" string per open port of a host that
\* is up
NmapTarget(host, port) == host \o ":" \o ToString(port)

NmapTargets == {NmapTarget(h, 8080) : h \in {"a", "1.2.3.4"}}

\* what standard input can give: bare hosts, http and https URLs, a URL of
\* another scheme, and host:port tokens
DispatchTargets ==
    {"a", "http://a", "https://b", "ftp://a"} \cup NmapTargets

DispatchLists ==
    UNION {[1..n -> DispatchTargets] : n \in 1..MaxUnits}

PortSet == {ports[k] : k \in 1..Len(ports)}

Units == (0..MaxUnits) \X (PortUniverse \cup {0})

HandlerNames ==
    {"OnHost", "OnTCPPort", "OnURL", "OnURLResponsive", "OnSessionEnd"}

HandlerIds == HandlerNames \X Units

Topics ==
    {"SessionStart", "SessionEnd", "Host", "URL", "TCPPort", "URLResponsive"}

\* the unit of the Host or URL event of target i
U(i) == <<i, 0>>

\* the unit of SessionStart and SessionEnd
NoUnit == <<0, 0>>

HostUnits(s) == {i \in 1..Len(s) : ~isURL(s[i])}

UnitCount(s, ps) ==
    Cardinality(HostUnits(s)) * Len(ps) + (Len(s) - Cardinality(HostUnits(s)))

\* the URLs of the pages of the clustering pass, in ascending order
ClusterURLSeq == <<"http://a", "http://b", "http://c", "http://d">>

ClusterURLs == {ClusterURLSeq[k] : k \in 1..MaxPages}

(* ------------------------------ the bus ------------------------------- *)
\* the handlers subscribed to a topic (SubscribeAsync in each Register)
Subscribers(topic) ==
    CASE topic = "Host" -> {"OnHost"}
      [] topic = "TCPPort" -> {"OnTCPPort"}
      [] topic = "URL" -> {"OnURL"}
      [] topic = "URLResponsive" -> {"OnURLResponsive"}
      [] topic = "SessionEnd" -> {"OnSessionEnd"}
      [] OTHER -> {}

\* EventBus.Publish: one queued invocation of every subscribed handler
Publish(h, topic, u) ==
    [id \in HandlerIds |->
        IF id[1] \in Subscribers(topic) /\ id[2] = u THEN "queued" ELSE h[id]]

Count(pub, topic, u) == [pub EXCEPT ![<<topic, u>>] = @ + 1]

Queued == {id \in HandlerIds : handler[id] = "queued"}

Running == {id \in HandlerIds : handler[id] = "running"}

(* ---------------------------- the options ----------------------------- *)
\* TCPPortScanner.Register: the depth of the semaphore a.scanWorker
concurrentScans ==
    IF optThreads # NilThreads THEN optThreads ELSE DefaultConcurrentScans

(* ------------------------------- Init --------------------------------- *)
\* session start-up resolving --threads 0 ("0 (auto)") to the number of
\* CPUs
ResolveThreads(flag) == IF flag = 0 THEN NumCPU ELSE flag

\* Options.Threads when the agents register: the flag as ParseOptions
\* stored it, or what session start-up made of it
ThreadsOptions(flag) == {flag, ResolveThreads(flag)}

\* a Page as NewPage returns it
EmptyPage ==
    [Headers |-> <<>>, Tags |-> <<>>, Notes |-> <<>>,
     ScreenshotPath |-> "", HasScreenshot |-> FALSE]

Writers == 1..MaxWriters

PageOps == {"AddHeader", "AddTag", "AddNote", "screenshotPage"}

\* the bus, the agents and the session as NewSession and Register leave them
InitAgents ==
    /\ nextTarget = 1
    /\ awaited = {}
    /\ handler = [id \in HandlerIds |-> "none"]
    /\ published = [e \in Topics \X Units |-> 0]
    /\ wg = 0
    /\ dns = [i \in 1..MaxUnits |-> "none"]
    /\ scanPc = [u \in Units |-> "none"]
    /\ results = [u \in Units |-> <<>>]
    /\ scanWorker = 0
    /\ portOpen = 0
    /\ portClosed = 0
    /\ classified = [u \in Units |-> "none"]
    /\ waitPc = [i \in 1..MaxUnits |-> "none"]
    /\ probe = [u \in Units |-> "none"]
    /\ urlArg = [u \in Units |-> ""]
    /\ reqPc = [u \in Units |-> "none"]
    /\ shotPc = [u \in Units |-> "none"]
    /\ screenshotSuccessful = 0
    /\ screenshotFailed = 0
    /\ chromeRan = [u \in Units |-> 0]
    /\ exitCode = NoExit
    /\ clusters = <<>>
    /\ visited = {}
    /\ passes = 0
    /\ firstRun = <<>>

\* the options that matter after start-up, at their defaults; no body file
DefaultOptions ==
    /\ screenshotTimeout = DefaultScreenshotTimeout
    /\ version = FALSE
    /\ sessionPath = FALSE
    /\ bodyFile = [u \in ClusterURLs |-> <<>>]

\* main at the call of processTargets
InitPipeline ==
    /\ DefaultOptions
    /\ mainPc = "start"
    /\ stdin = <<targets>>
    /\ tempDir = TRUE
    /\ trace = <<"registerAgents", "readAndParseTargets">>
    /\ pages = <<>>
    /\ InitAgents

\* no goroutine of the Page specification exists
InitNoWriters ==
    /\ pgOp = [g \in Writers |-> "none"]
    /\ pgPc = [g \in Writers |-> "done"]
    /\ pgLock = 0
    /\ pg = EmptyPage

InitWith(maxScans) ==
    /\ targets \in TargetLists
    /\ ports \in PortLists
    /\ UnitCount(targets, ports) <= MaxUnits
    /\ Cardinality(HostUnits(targets)) * Len(ports) <= maxScans
    /\ threadsFlag \in 0..MaxThreads
    /\ optThreads \in ThreadsOptions(threadsFlag)
    /\ InitPipeline
    /\ InitNoWriters

Init == InitWith(MaxScans)

(* --------------------------- processTargets --------------------------- *)
TargetString(i) == targets[i]

optionVars ==
    <<ports, threadsFlag, optThreads, screenshotTimeout, version,
      sessionPath, bodyFile>>
configVars == <<targets, stdin, optionVars>>
mainVars == <<exitCode, trace, clusters, visited, passes, firstRun>>
scanVars ==
    <<dns, scanPc, results, scanWorker, portOpen, portClosed, classified,
      waitPc>>
pubVars == <<probe, urlArg>>
pgVars == <<pgOp, pgPc, pgLock, pg>>
pageVars == <<reqPc, pages, shotPc, screenshotSuccessful, screenshotFailed,
              tempDir, chromeRan, pgVars>>

\* Publish(core.SessionStart)
PublishSessionStart ==
    /\ mainPc = "start"
    /\ mainPc' = "targets"
    /\ handler' = Publish(handler, "SessionStart", NoUnit)
    /\ published' = Count(published, "SessionStart", NoUnit)
    /\ UNCHANGED <<configVars, mainVars, nextTarget, awaited, wg, scanVars, pubVars, pageVars>>

\* one iteration of the loop over the targets; time.Sleep(1s) follows the
\* last one
PublishTarget ==
    /\ mainPc = "targets"
    /\ nextTarget <= Len(targets)
    /\ LET t == nextTarget
           u == U(nextTarget)
       IN  IF isURL(TargetString(t))
           THEN IF hasSupportedScheme(TargetString(t))
                THEN /\ handler' = Publish(handler, "URL", u)
                     /\ published' = Count(published, "URL", u)
                     /\ urlArg' = [urlArg EXCEPT ![u] = TargetString(t)]
                ELSE UNCHANGED <<handler, published, urlArg>>
           ELSE /\ handler' = Publish(handler, "Host", u)
                /\ published' = Count(published, "Host", u)
                /\ UNCHANGED urlArg
    /\ nextTarget' = nextTarget + 1
    /\ mainPc' = IF nextTarget = Len(targets) THEN "sleep1" ELSE "targets"
    /\ UNCHANGED <<configVars, mainVars, awaited, wg, scanVars, probe, pageVars>>

\* time.Sleep(1s) ends and EventBus.WaitAsync() is called: it waits for the
\* handlers queued at this moment to start
Sleep ==
    /\ mainPc \in {"sleep1", "sleep2"}
    /\ mainPc' = IF mainPc = "sleep1" THEN "waitAsync1" ELSE "waitAsync2"
    /\ awaited' = Queued
    /\ UNCHANGED <<configVars, mainVars, nextTarget, handler, published, wg, scanVars,
                   pubVars, pageVars>>

\* EventBus.WaitAsync() returns: every awaited handler has started
WaitAsync ==
    /\ mainPc \in {"waitAsync1", "waitAsync2"}
    /\ awaited \cap Queued = {}
    /\ mainPc' = IF mainPc = "waitAsync1" THEN "wgWait1" ELSE "wgWait2"
    /\ awaited' = {}
    /\ UNCHANGED <<configVars, mainVars, nextTarget, handler, published, wg, scanVars,
                   pubVars, pageVars>>

\* Session.WaitGroup.Wait() returns: the count is zero
WaitGroupWait ==
    /\ mainPc \in {"wgWait1", "wgWait2"}
    /\ wg = 0
    /\ mainPc' = IF mainPc = "wgWait1" THEN "sessionEnd" ELSE "returned"
    /\ UNCHANGED <<configVars, mainVars, nextTarget, awaited, handler, published, wg,
                   scanVars, pubVars, pageVars>>

\* Publish(core.SessionEnd) made right after the loop over the targets as
\* well, without the first sleep, WaitAsync and WaitGroup.Wait
PublishSessionEndEarly ==
    /\ mainPc \in {"sleep1", "sessionEnd"}
    /\ mainPc' = "sleep2"
    /\ handler' = Publish(handler, "SessionEnd", NoUnit)
    /\ published' = Count(published, "SessionEnd", NoUnit)
    /\ UNCHANGED <<configVars, mainVars, nextTarget, awaited, wg, scanVars, pubVars, pageVars>>

\* Publish(core.SessionEnd)
PublishSessionEnd ==
    /\ mainPc = "sessionEnd"
    /\ mainPc' = "sleep2"
    /\ handler' = Publish(handler, "SessionEnd", NoUnit)
    /\ published' = Count(published, "SessionEnd", NoUnit)
    /\ UNCHANGED <<configVars, mainVars, nextTarget, awaited, wg, scanVars, pubVars, pageVars>>

(* --------------------------- the bus worker --------------------------- *)
\* a bus worker starts a queued handler invocation
HandlerStart(id) ==
    /\ handler[id] = "queued"
    /\ handler' = [handler EXCEPT ![id] = "running"]
    /\ UNCHANGED <<configVars, mainVars, mainPc, nextTarget, awaited, published, wg,
                   scanVars, pubVars, pageVars>>

(* --------------------------- TCPPortScanner --------------------------- *)
RECURSIVE Contains(_, _, _)
Contains(str, ch, i) ==
    i <= Len(str) /\ (Char(str, i) = ch \/ Contains(str, ch, i + 1))

\* net.LookupHost: the outcomes possible for a name; a name with a colon
\* in it is no host name and never resolves
LookupHost(host) ==
    IF Contains(host, ":", 1) THEN {FALSE} ELSE BOOLEAN

\* OnHost without the return after a failed lookup
OnHostIgnoresLookupError(i) ==
    /\ handler[<<"OnHost", U(i)>>] = "running"
    /\ \E ok \in BOOLEAN :
        /\ dns' = [dns EXCEPT ![i] = IF ok THEN "ok" ELSE "fail"]
        /\ wg' = wg + Len(ports)
        /\ scanPc' = [u \in Units |->
               IF u[1] = i /\ u[2] \in PortSet THEN "acquire" ELSE scanPc[u]]
        /\ waitPc' = [waitPc EXCEPT ![i] = "waiting"]
    /\ handler' = [handler EXCEPT ![<<"OnHost", U(i)>>] = "done"]
    /\ UNCHANGED <<configVars, mainVars, mainPc, nextTarget, awaited, published,
                   results, scanWorker, portOpen, portClosed, classified,
                   pubVars, pageVars>>

\* OnHost: net.LookupHost, then one Add and one goroutine per port, and a
\* last goroutine that waits for them
OnHost(i) ==
    /\ handler[<<"OnHost", U(i)>>] = "running"
    /\ \E ok \in LookupHost(TargetHost(i)) :
        IF ok
        THEN /\ dns' = [dns EXCEPT ![i] = "ok"]
             /\ wg' = wg + Len(ports)
             /\ scanPc' = [u \in Units |->
                    IF u[1] = i /\ u[2] \in PortSet THEN "acquire"
                    ELSE scanPc[u]]
             /\ waitPc' = [waitPc EXCEPT ![i] = "waiting"]
        ELSE /\ dns' = [dns EXCEPT ![i] = "fail"]
             /\ UNCHANGED <<wg, scanPc, waitPc>>
    /\ handler' = [handler EXCEPT ![<<"OnHost", U(i)>>] = "done"]
    /\ UNCHANGED <<configVars, mainVars, mainPc, nextTarget, awaited, published,
                   results, scanWorker, portOpen, portClosed, classified,
                   pubVars, pageVars>>

\* ScanAcquire with one semaphore per host instead of one for all hosts
ScanAcquirePerHost(u) ==
    /\ scanPc[u] = "acquire"
    /\ Cardinality({v \in Units : v[1] = u[1] /\ scanPc[v] \in {"scan", "record"}})
           < concurrentScans
    /\ scanWorker' = scanWorker + 1
    /\ scanPc' = [scanPc EXCEPT ![u] = "scan"]
    /\ UNCHANGED <<configVars, mainVars, mainPc, nextTarget, awaited, handler,
                   published, wg, dns, results, portOpen, portClosed,
                   classified, waitPc, pubVars, pageVars>>

\* a.scanWorker <- struct{}{}: blocks while the channel is full
ScanAcquire(u) ==
    /\ scanPc[u] = "acquire"
    /\ scanWorker < concurrentScans
    /\ scanWorker' = scanWorker + 1
    /\ scanPc' = [scanPc EXCEPT ![u] = "scan"]
    /\ UNCHANGED <<configVars, mainVars, mainPc, nextTarget, awaited, handler,
                   published, wg, dns, results, portOpen, portClosed,
                   classified, waitPc, pubVars, pageVars>>

\* the loop condition: attempts < 2 && !success
success(rs) == \E k \in 1..Len(rs) : rs[k]

\* the loop condition without "&& !success"
LoopIgnoresSuccess(rs) == Len(rs) < MaxAttempts

LoopContinues(rs) == Len(rs) < MaxAttempts /\ ~success(rs)

\* the outcomes of dialer.DialContext and of conn.Read
DialOutcomes == {"ok", "timeout", "error"}

ReadOutcomes == {"data", "EOF", "timeout", "error"}

\* scanPort reporting a port open only when a byte was read
scanPortNeedsData(dial, deadlineOk, read) ==
    dial = "ok" /\ deadlineOk /\ read = "data"

\* scanPort: false after a dial error and after a SetReadDeadline error,
\* true otherwise, whatever conn.Read returns
scanPort(dial, deadlineOk, read) ==
    IF dial # "ok" THEN FALSE
    ELSE IF ~deadlineOk THEN FALSE
    ELSE TRUE

\* one iteration of the retry loop: a.scanPort(ctx, port, host)
ScanAttempt(u) ==
    /\ scanPc[u] = "scan"
    /\ \E dial \in DialOutcomes, deadlineOk \in BOOLEAN, read \in ReadOutcomes :
        LET rs == Append(results[u], scanPort(dial, deadlineOk, read))
        IN  /\ results' = [results EXCEPT ![u] = rs]
            /\ scanPc' = [scanPc EXCEPT ![u] =
                    IF LoopContinues(rs) THEN "scan" ELSE "record"]
    /\ UNCHANGED <<configVars, mainVars, mainPc, nextTarget, awaited, handler,
                   published, wg, dns, scanWorker, portOpen, portClosed,
                   classified, waitPc, pubVars, pageVars>>

\* ScanRecord counting a closed port once per failed attempt
ScanRecordPerAttempt(u) ==
    /\ scanPc[u] = "record"
    /\ IF success(results[u])
       THEN /\ portOpen' = portOpen + 1
            /\ classified' = [classified EXCEPT ![u] = "open"]
            /\ handler' = Publish(handler, "TCPPort", u)
            /\ published' = Count(published, "TCPPort", u)
            /\ UNCHANGED portClosed
       ELSE /\ portClosed' = portClosed + Len(results[u])
            /\ classified' = [classified EXCEPT ![u] = "closed"]
            /\ UNCHANGED <<portOpen, handler, published>>
    /\ scanWorker' = scanWorker - 1
    /\ wg' = wg - 1
    /\ scanPc' = [scanPc EXCEPT ![u] = "done"]
    /\ UNCHANGED <<configVars, mainVars, mainPc, nextTarget, awaited, dns, results,
                   waitPc, pubVars, pageVars>>

\* ScanRecord publishing TCPPort outside the "if success" branch
ScanRecordAlwaysPublishes(u) ==
    /\ scanPc[u] = "record"
    /\ IF success(results[u])
       THEN /\ portOpen' = portOpen + 1
            /\ classified' = [classified EXCEPT ![u] = "open"]
            /\ UNCHANGED portClosed
       ELSE /\ portClosed' = portClosed + 1
            /\ classified' = [classified EXCEPT ![u] = "closed"]
            /\ UNCHANGED portOpen
    /\ handler' = Publish(handler, "TCPPort", u)
    /\ published' = Count(published, "TCPPort", u)
    /\ scanWorker' = scanWorker - 1
    /\ wg' = wg - 1
    /\ scanPc' = [scanPc EXCEPT ![u] = "done"]
    /\ UNCHANGED <<configVars, mainVars, mainPc, nextTarget, awaited, dns, results,
                   waitPc, pubVars, pageVars>>

\* after the loop: count the port and publish TCPPort when it is open; then
\* the deferred calls: <-a.scanWorker and a.session.WaitGroup.Done()
ScanRecord(u) ==
    /\ scanPc[u] = "record"
    /\ IF success(results[u])
       THEN /\ portOpen' = portOpen + 1
            /\ classified' = [classified EXCEPT ![u] = "open"]
            /\ handler' = Publish(handler, "TCPPort", u)
            /\ published' = Count(published, "TCPPort", u)
            /\ UNCHANGED portClosed
       ELSE /\ portClosed' = portClosed + 1
            /\ classified' = [classified EXCEPT ![u] = "closed"]
            /\ UNCHANGED <<portOpen, handler, published>>
    /\ scanWorker' = scanWorker - 1
    /\ wg' = wg - 1
    /\ scanPc' = [scanPc EXCEPT ![u] = "done"]
    /\ UNCHANGED <<configVars, mainVars, mainPc, nextTarget, awaited, dns, results,
                   waitPc, pubVars, pageVars>>

\* the goroutine of OnHost running wg.Wait(): every port scan of the host
\* has called wg.Done(); it then logs the completion
ScansCompleted(i) ==
    /\ waitPc[i] = "waiting"
    /\ \A p \in PortSet : scanPc[<<i, p>>] = "done"
    /\ waitPc' = [waitPc EXCEPT ![i] = "done"]
    /\ UNCHANGED <<configVars, mainVars, mainPc, nextTarget, awaited, handler,
                   published, wg, dns, scanPc, results, scanWorker, portOpen,
                   portClosed, classified, pubVars, pageVars>>

(* ---------------------------- URLPublisher ---------------------------- *)
\* HostAndPortToURL: the default port of the scheme is left out
HostAndPortToURL(host, port, protocol) ==
    IF (protocol = "http" /\ port = 80) \/ (protocol = "https" /\ port = 443)
    THEN protocol \o "://" \o host
    ELSE protocol \o "://" \o host \o ":" \o ToString(port)

\* isTLS without the shortcut for port 443
isTLSProbes443(port, dialOk) ==
    IF port = 80 THEN <<FALSE, FALSE, FALSE>>
    ELSE IF dialOk THEN <<TRUE, FALSE, TRUE>>
    ELSE <<FALSE, TRUE, TRUE>>

\* isTLS: <<the answer, an error occurred, a TLS dial was made>>; dialOk is
\* the outcome of tls.DialWithDialer
isTLS(port, dialOk) ==
    IF port = 80 THEN <<FALSE, FALSE, FALSE>>
    ELSE IF port = 443 THEN <<TRUE, FALSE, FALSE>>
    ELSE IF dialOk THEN <<TRUE, FALSE, TRUE>>
    ELSE <<FALSE, TRUE, TRUE>>

\* OnTCPPort's choice of the scheme from isTLS's answer and error
SchemeOf(tls) ==
    IF tls[2] THEN "http" ELSE IF tls[1] THEN "https" ELSE "http"

\* OnTCPPort returning without a URL when isTLS reports an error
OnTCPPortDropsOnError(u) ==
    /\ handler[<<"OnTCPPort", u>>] = "running"
    /\ \E dialOk \in BOOLEAN :
        LET tls == isTLS(u[2], dialOk)
            url == HostAndPortToURL(TargetHost(u[1]), u[2], SchemeOf(tls))
        IN  /\ probe' = [probe EXCEPT ![u] =
                    IF ~tls[3] THEN "skipped"
                    ELSE IF dialOk THEN "ok" ELSE "failed"]
            /\ IF tls[2]
               THEN /\ handler' = [handler EXCEPT ![<<"OnTCPPort", u>>] = "done"]
                    /\ UNCHANGED <<urlArg, published>>
               ELSE /\ urlArg' = [urlArg EXCEPT ![u] = url]
                    /\ handler' = [Publish(handler, "URL", u)
                                      EXCEPT ![<<"OnTCPPort", u>>] = "done"]
                    /\ published' = Count(published, "URL", u)
    /\ UNCHANGED <<configVars, mainVars, mainPc, nextTarget, awaited, wg, scanVars, pageVars>>

\* OnTCPPort: the scheme from isTLS, the URL from HostAndPortToURL, and
\* Publish(core.URL, url)
OnTCPPort(u) ==
    /\ handler[<<"OnTCPPort", u>>] = "running"
    /\ \E dialOk \in BOOLEAN :
        LET tls == isTLS(u[2], dialOk)
            url == HostAndPortToURL(TargetHost(u[1]), u[2], SchemeOf(tls))
        IN  /\ probe' = [probe EXCEPT ![u] =
                    IF ~tls[3] THEN "skipped"
                    ELSE IF dialOk THEN "ok" ELSE "failed"]
            /\ urlArg' = [urlArg EXCEPT ![u] = url]
            /\ handler' = [Publish(handler, "URL", u)
                              EXCEPT ![<<"OnTCPPort", u>>] = "done"]
            /\ published' = Count(published, "URL", u)
    /\ UNCHANGED <<configVars, mainVars, mainPc, nextTarget, awaited, wg, scanVars, pageVars>>

(* ---------------------------- URLRequester ---------------------------- *)
\* OnURL: WaitGroup.Add, then the request goroutine
OnURL(u) ==
    /\ handler[<<"OnURL", u>>] = "running"
    /\ wg' = wg + 1
    /\ reqPc' = [reqPc EXCEPT ![u] = "request"]
    /\ handler' = [handler EXCEPT ![<<"OnURL", u>>] = "done"]
    /\ UNCHANGED <<configVars, mainVars, mainPc, nextTarget, awaited, published,
                   scanVars, pubVars, pages, shotPc, screenshotSuccessful,
                   screenshotFailed, tempDir, chromeRan,
                   pgVars>>

NewPage(url) ==
    [URL |-> url, ScreenshotPath |-> "", HasScreenshot |-> FALSE,
     PageStructure |-> <<>>]

\* the request goroutine: on a response the page is created and
\* URLResponsive is published; WaitGroup.Done ends it either way
Request(u) ==
    /\ reqPc[u] = "request"
    /\ \E responded \in BOOLEAN :
        IF responded
        THEN /\ pages' = (urlArg[u] :> NewPage(urlArg[u])) @@ pages
             /\ handler' = Publish(handler, "URLResponsive", u)
             /\ published' = Count(published, "URLResponsive", u)
        ELSE UNCHANGED <<pages, handler, published>>
    /\ wg' = wg - 1
    /\ reqPc' = [reqPc EXCEPT ![u] = "done"]
    /\ UNCHANGED <<configVars, mainVars, mainPc, nextTarget, awaited, scanVars, pubVars,
                   shotPc, screenshotSuccessful, screenshotFailed, tempDir, chromeRan,
                   pgVars>>

(* ------------------------------ strings ------------------------------- *)
UpperToLower ==
    "A" :> "a" @@ "B" :> "b" @@ "C" :> "c" @@ "D" :> "d" @@ "E" :> "e" @@
    "F" :> "f" @@ "G" :> "g" @@ "H" :> "h" @@ "I" :> "i" @@ "J" :> "j" @@
    "K" :> "k" @@ "L" :> "l" @@ "M" :> "m" @@ "N" :> "n" @@ "O" :> "o" @@
    "P" :> "p" @@ "Q" :> "q" @@ "R" :> "r" @@ "S" :> "s" @@ "T" :> "t" @@
    "U" :> "u" @@ "V" :> "v" @@ "W" :> "w" @@ "X" :> "x" @@ "Y" :> "y" @@
    "Z" :> "z"

\* strings.ToLower, for ASCII
RECURSIVE ToLower(_)
ToLower(str) ==
    IF str = "" THEN ""
    ELSE LET c == Char(str, 1)
         IN  (IF c \in DOMAIN UpperToLower THEN UpperToLower[c] ELSE c)
                 \o ToLower(SubSeq(str, 2, Len(str)))

\* strings.Replace(str, old, new, n) for a one-character old: the first n
\* occurrences are replaced, all of them when n < 0
RECURSIVE Replace(_, _, _, _)
Replace(str, old, new, n) ==
    IF str = "" \/ n = 0 THEN str
    ELSE IF Char(str, 1) = old
         THEN new \o Replace(SubSeq(str, 2, Len(str)), old, new, n - 1)
    ELSE Char(str, 1) \o Replace(SubSeq(str, 2, Len(str)), old, new, n)

\* strings.IndexByte from position i on, counted from 1; 0: not found
RECURSIVE Index(_, _, _)
Index(str, ch, i) ==
    IF i > Len(str) THEN 0
    ELSE IF Char(str, i) = ch THEN i
    ELSE Index(str, ch, i + 1)

\* the parts of a string before and after position k (all and none of it
\* when k = 0)
Before(str, k) == IF k = 0 THEN str ELSE SubSeq(str, 1, k - 1)

After(str, k) == IF k = 0 THEN "" ELSE SubSeq(str, k + 1, Len(str))

\* the hex SHA-1 digests of the strings that are hashed
Sha1Table ==
    "" :> "da39a3ee5e6b4b0d3255bfef95601890afd80709" @@
    "/" :> "42099b4af021e53fd8fd4e056c2568d7c2e3ffa8" @@
    "/Path" :> "da2d59abfc475d0c2b9b8d8e3384188d94181904" @@
    "/ab" :> "68094e6041202b245ad105b7229ad24528ca0608" @@
    "/path" :> "4f26609ad3f5185faaa9edf1e93aa131e2131352" @@
    "/pathsection1" :> "acc59d181f4e3bc80139fa67ea9113fc56b5446d" @@
    "/resource" :> "cec4ccb8f55dc23ad0ca8fa6b6bcfa2ae662141f" @@
    "/abq=1" :> "c756d5044f2fe86a0a898d3a04c21a9feed47255" @@
    "/abq=2" :> "d49d622dd0b83d5d5f8f4017a4080805b2e9e45d" @@
    "/aq=1b" :> "388bd02a88b0ce250f1b1256d1faa1de22d34e99" @@
    "abbc" :> "b36b79db013ad344dd4f04761e9c1c1fc0503303" @@
    "abbchttp://x" :> "865cc9ab2c818349366fe4a5249870f9055cd70e" @@
    "abc" :> "a9993e364706816aba3e25717850c26c9cd0d89d" @@
    "abchttp://x" :> "8705a3677c3ddfa0fe601493b816e288e02a1865" @@
    "abinfo" :> "2045fd21caf18e18bdc95cd0fcb12442c705ba6c" @@
    "abinfohttp://x" :> "031ceea0358750c545b01b89800aad14736f478d" @@
    "ac" :> "0c11d463c749db5838e2c0e489bf869d531e5403" @@
    "achttp://x" :> "b74843d15630d17ebd6f66b8658278337e52d752" @@
    "ainfo" :> "1f50b5d70a76477f62e553dc89a921865943d7f8" @@
    "ainfohttp://x" :> "1f741aa939cf8366579944cfc646e439c7d8116e"

\* fmt.Sprintf("%x", h.Sum(nil)) after the writes of str to sha1.New()
Sha1Hex(str) == Sha1Table[str]

(* ------------------------------ url.Parse ----------------------------- *)
\* url.Parse for absolute URLs scheme://host[:port][/path][?query][#fragment]
\* without user information and without percent-escapes: the fragment is
\* cut off at the first "#", then the scheme, then the query at the first
\* "?", and the authority ends at the first "/"
Parse(rawURL) ==
    LET hashAt == Index(rawURL, "#", 1)
        g == getScheme(Before(rawURL, hashAt))
        qAt == Index(g[2], "?", 1)
        rest == Before(g[2], qAt)
        auth == IF HasPrefix(rest, "//") THEN SubSeq(rest, 3, Len(rest))
                ELSE ""
        slashAt == Index(auth, "/", 1)
    IN  [Scheme |-> ToLower(g[1]),
         Host |-> Before(auth, slashAt),
         Path |-> IF ~HasPrefix(rest, "//") THEN rest
                  ELSE IF slashAt = 0 THEN ""
                  ELSE SubSeq(auth, slashAt, Len(auth)),
         RawQuery |-> After(g[2], qAt),
         Fragment |-> After(rawURL, hashAt)]

(* ---------------------------- Page.BaseFilename ----------------------- *)
\* BaseFilename without the final strings.ToLower
BaseFilenameKeepsCase(url) ==
    LET u == Parse(url)
        pathHash == SubSeq(Sha1Hex(u.Path \o u.Fragment), 1, 16)
        host == Replace(u.Host, ":", "__", 1)
    IN  u.Scheme \o "__" \o Replace(host, ".", "_", -1) \o "__" \o pathHash

\* BaseFilename hashing the query string as well
BaseFilenameHashesQuery(url) ==
    LET u == Parse(url)
        pathHash == SubSeq(Sha1Hex(u.Path \o u.RawQuery \o u.Fragment), 1, 16)
        host == Replace(u.Host, ":", "__", 1)
    IN  ToLower(u.Scheme \o "__" \o Replace(host, ".", "_", -1) \o "__"
                    \o pathHash)

\* Page.BaseFilename
BaseFilename(url) ==
    LET u == Parse(url)
        pathHash == SubSeq(Sha1Hex(u.Path \o u.Fragment), 1, 16)
        host == Replace(u.Host, ":", "__", 1)
    IN  ToLower(u.Scheme \o "__" \o Replace(host, ".", "_", -1) \o "__"
                    \o pathHash)

(* ------------------------------- Header ------------------------------- *)
\* the keys of the map degradingSecurityHeaders
degradingSecurityHeaders ==
    {"server", "wpe-backend", "x-powered-by", "x-cf-powered-by", "x-pingback",
     "access-control-allow-origin", "x-xss-protection"}

\* the keys of the map increasingSecurityHeaders
increasingSecurityHeaders ==
    {"content-security-policy", "content-security-policy-report-only",
     "strict-transport-security", "x-frame-options", "referrer-policy",
     "public-key-pins", "x-permitted-cross-domain-policies",
     "x-content-type-options", "x-xss-protection"}

\* the check functions with Access-Control-Allow-Origin degrading for
\* every value
degradingCheckAnyOrigin(lowerName, value) ==
    CASE lowerName = "x-xss-protection" -> ~HasPrefix(value, "1")
      [] OTHER -> TRUE

\* the check function of a key of degradingSecurityHeaders
degradingCheck(lowerName, value) ==
    CASE lowerName = "access-control-allow-origin" -> value = "*"
      [] lowerName = "x-xss-protection" -> ~HasPrefix(value, "1")
      [] OTHER -> TRUE

\* the check function of a key of increasingSecurityHeaders
increasingCheck(lowerName, value) ==
    CASE lowerName = "x-permitted-cross-domain-policies" ->
             ToLower(value) = "master-only"
      [] lowerName = "x-content-type-options" -> ToLower(value) = "nosniff"
      [] lowerName = "x-xss-protection" -> HasPrefix(value, "1")
      [] OTHER -> TRUE

\* decreasesSecurity looking the name up as it is written
decreasesSecurityExactName(h) ==
    IF h.Name \in degradingSecurityHeaders
    THEN degradingCheck(h.Name, h.Value)
    ELSE FALSE

decreasesSecurity(h) ==
    LET lowerName == ToLower(h.Name)
    IN  IF lowerName \in degradingSecurityHeaders
        THEN degradingCheck(lowerName, h.Value)
        ELSE FALSE

increasesSecurity(h) ==
    LET lowerName == ToLower(h.Name)
    IN  IF lowerName \in increasingSecurityHeaders
        THEN increasingCheck(lowerName, h.Value)
        ELSE FALSE

\* SetSecurityFlags setting a flag and never clearing one
SetSecurityFlagsOnlyRaises(h) ==
    IF decreasesSecurity(h) THEN [h EXCEPT !.DecreasesSecurity = TRUE]
    ELSE IF increasesSecurity(h) THEN [h EXCEPT !.IncreasesSecurity = TRUE]
    ELSE h

SetSecurityFlags(h) ==
    IF decreasesSecurity(h)
    THEN [h EXCEPT !.DecreasesSecurity = TRUE, !.IncreasesSecurity = FALSE]
    ELSE IF increasesSecurity(h)
    THEN [h EXCEPT !.DecreasesSecurity = FALSE, !.IncreasesSecurity = TRUE]
    ELSE [h EXCEPT !.DecreasesSecurity = FALSE, !.IncreasesSecurity = FALSE]

\* the struct literal Header{Name: name, Value: value}
NewHeader(name, value) ==
    [Name |-> name, Value |-> value, DecreasesSecurity |-> FALSE,
     IncreasesSecurity |-> FALSE]

\* the Header values there are
Headers ==
    [Name : HeaderNames, Value : HeaderValues, DecreasesSecurity : BOOLEAN,
     IncreasesSecurity : BOOLEAN]

(* --------------------------- URLScreenshotter ------------------------- *)
\* Session.GetPage: the page of a URL, or none
HasPage(url) == url \in DOMAIN pages

\* OnURLResponsive starting the goroutine without WaitGroup.Add
OnURLResponsiveNoAdd(u) ==
    /\ handler[<<"OnURLResponsive", u>>] = "running"
    /\ IF HasPage(urlArg[u])
       THEN shotPc' = [shotPc EXCEPT ![u] = "chrome"]
       ELSE UNCHANGED shotPc
    /\ handler' = [handler EXCEPT ![<<"OnURLResponsive", u>>] = "done"]
    /\ UNCHANGED <<configVars, mainVars, mainPc, nextTarget, awaited, published, wg,
                   scanVars, pubVars, reqPc, pages, screenshotSuccessful,
                   screenshotFailed, tempDir, chromeRan,
                   pgVars>>

\* OnURLResponsive without the check for a missing page
OnURLResponsiveNoSkip(u) ==
    /\ handler[<<"OnURLResponsive", u>>] = "running"
    /\ wg' = wg + 1
    /\ shotPc' = [shotPc EXCEPT ![u] = "chrome"]
    /\ handler' = [handler EXCEPT ![<<"OnURLResponsive", u>>] = "done"]
    /\ UNCHANGED <<configVars, mainVars, mainPc, nextTarget, awaited, published,
                   scanVars, pubVars, reqPc, pages, screenshotSuccessful,
                   screenshotFailed, tempDir, chromeRan,
                   pgVars>>

\* OnURLResponsive: skip when the session has no page, else WaitGroup.Add
\* and the screenshot goroutine
OnURLResponsive(u) ==
    /\ handler[<<"OnURLResponsive", u>>] = "running"
    /\ IF HasPage(urlArg[u])
       THEN /\ wg' = wg + 1
            /\ shotPc' = [shotPc EXCEPT ![u] = "chrome"]
       ELSE UNCHANGED <<wg, shotPc>>
    /\ handler' = [handler EXCEPT ![<<"OnURLResponsive", u>>] = "done"]
    /\ UNCHANGED <<configVars, mainVars, mainPc, nextTarget, awaited, published,
                   scanVars, pubVars, reqPc, pages, screenshotSuccessful,
                   screenshotFailed, tempDir, chromeRan,
                   pgVars>>

\* screenshotPage: filePath
ScreenshotFilePath(url) == "screenshots/" \o BaseFilename(url) \o ".png"

\* the time a Chrome process needs, in ms
ChromeRunTimes == {100, 40000000}

\* the deadline of the context of screenshotPage, in ms
ScreenshotDeadline == screenshotTimeout * 1000

\* screenshotPage with both failure branches of cmd.Wait counting a timeout
ScreenshotPageCountsTimeoutTwice(u) ==
    /\ shotPc[u] = "chrome"
    /\ \E started \in BOOLEAN, d \in ChromeRunTimes, exitOk \in BOOLEAN :
        IF ~started
        THEN /\ screenshotFailed' = screenshotFailed + 1
             /\ UNCHANGED <<screenshotSuccessful, pages, chromeRan>>
        ELSE IF d > ScreenshotDeadline
        THEN /\ screenshotFailed' = screenshotFailed + 2
             /\ chromeRan' = [chromeRan EXCEPT ![u] = ScreenshotDeadline]
             /\ UNCHANGED <<screenshotSuccessful, pages>>
        ELSE IF ~exitOk
        THEN /\ screenshotFailed' = screenshotFailed + 1
             /\ chromeRan' = [chromeRan EXCEPT ![u] = d]
             /\ UNCHANGED <<screenshotSuccessful, pages>>
        ELSE /\ screenshotSuccessful' = screenshotSuccessful + 1
             /\ chromeRan' = [chromeRan EXCEPT ![u] = d]
             /\ pages' = [pages EXCEPT ![urlArg[u]] =
                    [@ EXCEPT !.ScreenshotPath = ScreenshotFilePath(urlArg[u]),
                              !.HasScreenshot = TRUE]]
             /\ UNCHANGED screenshotFailed
    /\ wg' = wg - 1
    /\ shotPc' = [shotPc EXCEPT ![u] = "done"]
    /\ UNCHANGED <<configVars, mainVars, mainPc, nextTarget, awaited, handler,
                   published, scanVars, pubVars, reqPc, tempDir, pgVars>>

\* screenshotPage: cmd.Start fails, or Chrome runs until it exits or until
\* the deadline of the context, at which it is killed; a failure to start, a
\* timeout and a non-zero exit count as failed, else the page is updated.
\* The deferred WaitGroup.Done ends the goroutine.
ScreenshotPage(u) ==
    /\ shotPc[u] = "chrome"
    /\ \E started \in BOOLEAN, d \in ChromeRunTimes, exitOk \in BOOLEAN :
        IF ~started
        THEN /\ screenshotFailed' = screenshotFailed + 1
             /\ UNCHANGED <<screenshotSuccessful, pages, chromeRan>>
        ELSE IF d > ScreenshotDeadline
        THEN /\ screenshotFailed' = screenshotFailed + 1
             /\ chromeRan' = [chromeRan EXCEPT ![u] = ScreenshotDeadline]
             /\ UNCHANGED <<screenshotSuccessful, pages>>
        ELSE IF ~exitOk
        THEN /\ screenshotFailed' = screenshotFailed + 1
             /\ chromeRan' = [chromeRan EXCEPT ![u] = d]
             /\ UNCHANGED <<screenshotSuccessful, pages>>
        ELSE /\ screenshotSuccessful' = screenshotSuccessful + 1
             /\ chromeRan' = [chromeRan EXCEPT ![u] = d]
             /\ pages' = [pages EXCEPT ![urlArg[u]] =
                    [@ EXCEPT !.ScreenshotPath = ScreenshotFilePath(urlArg[u]),
                              !.HasScreenshot = TRUE]]
             /\ UNCHANGED screenshotFailed
    /\ wg' = wg - 1
    /\ shotPc' = [shotPc EXCEPT ![u] = "done"]
    /\ UNCHANGED <<configVars, mainVars, mainPc, nextTarget, awaited, handler,
                   published, scanVars, pubVars, reqPc, tempDir, pgVars>>

\* OnSessionEnd: os.RemoveAll(a.tempUserDirPath)
OnSessionEnd ==
    /\ handler[<<"OnSessionEnd", NoUnit>>] = "running"
    /\ tempDir' = FALSE
    /\ handler' = [handler EXCEPT ![<<"OnSessionEnd", NoUnit>>] = "done"]
    /\ UNCHANGED <<configVars, mainVars, mainPc, nextTarget, awaited, published, wg,
                   scanVars, pubVars, reqPc, pages, shotPc,
                   screenshotSuccessful, screenshotFailed, chromeRan, pgVars>>

(* -------------------------- the specification ------------------------- *)
Next ==
    \/ PublishSessionStart
    \/ PublishTarget
    \/ Sleep
    \/ WaitAsync
    \/ WaitGroupWait
    \/ PublishSessionEnd
    \/ \E id \in HandlerIds : HandlerStart(id)
    \/ \E i \in 1..MaxUnits : OnHost(i)
    \/ \E u \in Units : ScanAcquire(u)
    \/ \E u \in Units : ScanAttempt(u)
    \/ \E u \in Units : ScanRecord(u)
    \/ \E i \in 1..MaxUnits : ScansCompleted(i)
    \/ \E u \in Units : OnTCPPort(u)
    \/ \E u \in Units : OnURL(u)
    \/ \E u \in Units : Request(u)
    \/ \E u \in Units : OnURLResponsive(u)
    \/ \E u \in Units : ScreenshotPage(u)
    \/ OnSessionEnd

Spec == Init /\ [][Next]_vars

(* ------------------------------- main -------------------------------- *)
procVars == <<handler, scanPc, waitPc, reqPc, shotPc>>

\* what no step of main outside processTargets changes
restVars ==
    <<configVars, nextTarget, awaited, published, wg, dns, results,
      scanWorker, portOpen, portClosed, classified, pubVars,
      screenshotSuccessful, screenshotFailed, chromeRan, pgVars>>

\* the end of the process ends every handler and goroutine still at work
Killed(f) ==
    [x \in DOMAIN f |-> IF f[x] \in {"none", "done"} THEN f[x] ELSE "killed"]

\* os.Exit(code), or the return of main with code 0
Exit(code) ==
    /\ mainPc' = "exited"
    /\ exitCode' = code
    /\ handler' = Killed(handler)
    /\ scanPc' = Killed(scanPc)
    /\ waitPc' = Killed(waitPc)
    /\ reqPc' = Killed(reqPc)
    /\ shotPc' = Killed(shotPc)

Continue(pc) ==
    /\ mainPc' = pc
    /\ UNCHANGED <<exitCode, procVars>>

\* core.NewSession and its error
NewSession ==
    /\ mainPc = "newSession"
    /\ \E ok \in BOOLEAN :
        IF ok
        THEN Continue("setup") /\ UNCHANGED trace
        ELSE Exit(1) /\ trace' = Append(trace, "sessionInitFailed")
    /\ UNCHANGED <<restVars, tempDir, pages, clusters, visited, passes, firstRun>>

\* handleInitialSetup: --version ends the process with 0; an output
\* directory that cannot be read or is no directory is fatal
handleInitialSetup ==
    /\ mainPc = "setup"
    /\ IF version
       THEN Exit(0) /\ trace' = Append(trace, "version")
       ELSE \E dirOk \in BOOLEAN :
               IF dirOk
               THEN Continue("load") /\ UNCHANGED trace
               ELSE Exit(1) /\ trace' = Append(trace, "outDirFailed")
    /\ UNCHANGED <<restVars, tempDir, pages, clusters, visited, passes, firstRun>>

\* loadSessionAndGenerateReport returning stopExecution = false after the
\* report
loadSessionAndContinue ==
    /\ mainPc = "load"
    /\ IF ~sessionPath
       THEN Continue("register") /\ UNCHANGED trace
       ELSE \E outcome \in {"sessionReadFailed", "sessionParseFailed",
                             "templateFailed", "reportOpenFailed",
                             "renderFailed", "report"} :
               /\ trace' = Append(trace, outcome)
               /\ IF outcome = "report" THEN Continue("register") ELSE Exit(1)
    /\ UNCHANGED <<restVars, tempDir, pages, clusters, visited, passes, firstRun>>

\* loadSessionAndGenerateReport and the exits of main after it: without
\* --session main goes on; with it the report is rendered from the loaded
\* session and the process ends, with 1 on any error
loadSessionAndGenerateReport ==
    /\ mainPc = "load"
    /\ IF ~sessionPath
       THEN Continue("register") /\ UNCHANGED trace
       ELSE \E outcome \in {"sessionReadFailed", "sessionParseFailed",
                             "templateFailed", "reportOpenFailed",
                             "renderFailed", "report"} :
               /\ trace' = Append(trace, outcome)
               /\ IF outcome = "report" THEN Exit(0) ELSE Exit(1)
    /\ UNCHANGED <<restVars, tempDir, pages, clusters, visited, passes, firstRun>>

\* registerAgents: the Register of every agent; that of the screenshotter
\* creates the temporary profile directory and then locates Chrome
registerAgents ==
    /\ mainPc = "register"
    /\ \E outcome \in {"subscribeFailed", "tempDirFailed", "chromeMissing",
                         "registerAgents"} :
        /\ trace' = Append(trace, outcome)
        /\ tempDir' = (outcome \in {"chromeMissing", "registerAgents"})
        /\ IF outcome = "registerAgents" THEN Continue("read") ELSE Exit(1)
    /\ UNCHANGED <<restVars, pages, clusters, visited, passes, firstRun>>

(* --------------------------- RegexParser ------------------------------ *)
\* the inner loop of Parse over the matches of a line: acc holds targets
\* and targetsFilter
RECURSIVE ParseMatches(_, _)
ParseMatches(matches, acc) ==
    IF matches = <<>> THEN acc
    ELSE IF Head(matches) \in acc.targetsFilter
    THEN ParseMatches(Tail(matches), acc)
    ELSE ParseMatches(Tail(matches),
                      [targets |-> Append(acc.targets, Head(matches)),
                       targetsFilter |-> acc.targetsFilter \cup {Head(matches)}])

\* the loop over the lines the scanner gives
RECURSIVE ParseLines(_, _)
ParseLines(lines, acc) ==
    IF lines = <<>> THEN acc
    ELSE ParseLines(Tail(lines), ParseMatches(Head(lines), acc))

\* Parse appending every match, without targetsFilter
RegexParserParseNoFilter(lines) ==
    LET RECURSIVE Concat(_)
        Concat(ls) == IF ls = <<>> THEN <<>> ELSE Head(ls) \o Concat(Tail(ls))
    IN  [targets |-> Concat(lines), err |-> "nil"]

\* RegexParser.Parse: the targets and the error it returns
RegexParserParse(lines) ==
    [targets |-> ParseLines(lines, [targets |-> <<>>, targetsFilter |-> {}]).targets,
     err |-> "nil"]

\* readAndParseTargets: standard input is read and parsed; a parser error
\* (NmapParser can return one) and an empty target list are fatal
readAndParseTargets ==
    /\ mainPc = "read"
    /\ \E nmapParsed \in BOOLEAN :
        LET parsed == RegexParserParse(stdin)
        IN  IF ~nmapParsed \/ parsed.err # "nil"
            THEN /\ Exit(1)
                 /\ trace' = trace \o <<"readAndParseTargets", "parseFailed">>
                 /\ UNCHANGED targets
            ELSE IF Len(parsed.targets) = 0
            THEN /\ Exit(1)
                 /\ trace' = trace \o <<"readAndParseTargets", "noTargets">>
                 /\ UNCHANGED targets
            ELSE /\ Continue("start")
                 /\ trace' = Append(trace, "readAndParseTargets")
                 /\ targets' = parsed.targets
    /\ UNCHANGED <<stdin, optionVars, nextTarget, awaited, published, wg, dns, results,
                   scanWorker, portOpen, portClosed, classified, pubVars,
                   screenshotSuccessful, screenshotFailed, chromeRan, pgVars,
                   tempDir, pages, clusters, visited, passes, firstRun>>

(* ---------------------------- analyzePages ---------------------------- *)
\* the saved body of a page: <<its structure>>, or <<>> when the file
\* cannot be opened or parsed
BodyOf(url) == IF url \in DOMAIN bodyFile THEN bodyFile[url] ELSE <<>>

Max(a, b) == IF a >= b THEN a ELSE b

\* the length of a longest common subsequence
RECURSIVE LCS(_, _)
LCS(a, b) ==
    IF a = <<>> \/ b = <<>> THEN 0
    ELSE IF Head(a) = Head(b) THEN 1 + LCS(Tail(a), Tail(b))
    ELSE Max(LCS(Tail(a), b), LCS(a, Tail(b)))

\* core.GetSimilarity, in percent: the ratio 2*M/T of a text-diff library
GetSimilarity(a, b) ==
    IF Len(a) + Len(b) = 0 THEN 100
    ELSE (200 * LCS(a, b)) \div (Len(a) + Len(b))

StructureOf(url) == pages[url].PageStructure

\* the inner loop over a cluster: no page of it is less than 0.80 similar
AcceptsIn(cs, k, url) ==
    \A j \in 1..Len(cs[k]) :
        ~(/\ HasPage(cs[k][j])
          /\ GetSimilarity(StructureOf(url), StructureOf(cs[k][j]))
                 < SimilarityThreshold)

Accepts(k, url) == AcceptsIn(clusters, k, url)

\* the first loop of analyzePages: aquatone_urls.txt is opened (a failure
\* is logged), and every page whose body file can be read gets its structure
CalculateStructures ==
    /\ mainPc = "returned"
    /\ \E urlsOpened \in BOOLEAN :
        trace' = IF urlsOpened THEN trace ELSE Append(trace, "urlsFileFailed")
    /\ pages' = [url \in DOMAIN pages |->
                    IF BodyOf(url) = <<>> THEN pages[url]
                    ELSE [pages[url] EXCEPT !.PageStructure = BodyOf(url)[1]]]
    /\ visited' = {}
    /\ Continue("cluster")
    /\ UNCHANGED <<restVars, tempDir, clusters, passes, firstRun>>

\* the clustering loop accepting a page when the first page of a cluster
\* is similar
ClusterPageChecksFirstMember(url) ==
    /\ mainPc = "cluster"
    /\ url \in DOMAIN pages \ visited
    /\ LET acc == {k \in 1..Len(clusters) :
                      GetSimilarity(StructureOf(url), StructureOf(clusters[k][1]))
                          >= SimilarityThreshold}
       IN  IF acc # {}
           THEN \E k \in acc : clusters' = [clusters EXCEPT ![k] = Append(@, url)]
           ELSE clusters' = Append(clusters, <<url>>)
    /\ visited' = visited \cup {url}
    /\ UNCHANGED <<restVars, mainPc, exitCode, procVars, trace, tempDir, pages,
                   passes, firstRun>>

\* the clustering loop without the break after the append: the page joins
\* every cluster that accepts it
ClusterPageJoinsAll(url) ==
    /\ mainPc = "cluster"
    /\ url \in DOMAIN pages \ visited
    /\ LET acc == {k \in 1..Len(clusters) : Accepts(k, url)}
       IN  IF acc # {}
           THEN clusters' = [k \in 1..Len(clusters) |->
                                IF k \in acc THEN Append(clusters[k], url)
                                ELSE clusters[k]]
           ELSE clusters' = Append(clusters, <<url>>)
    /\ visited' = visited \cup {url}
    /\ UNCHANGED <<restVars, mainPc, exitCode, procVars, trace, tempDir, pages,
                   passes, firstRun>>

\* one iteration of the clustering loop, for the page the map iteration
\* gives next: it joins the cluster the iteration over the clusters finds
\* first among those that accept it, or a new cluster
ClusterPage(url) ==
    /\ mainPc = "cluster"
    /\ url \in DOMAIN pages \ visited
    /\ LET acc == {k \in 1..Len(clusters) : Accepts(k, url)}
       IN  IF acc # {}
           THEN \E k \in acc : clusters' = [clusters EXCEPT ![k] = Append(@, url)]
           ELSE clusters' = Append(clusters, <<url>>)
    /\ visited' = visited \cup {url}
    /\ UNCHANGED <<restVars, mainPc, exitCode, procVars, trace, tempDir, pages,
                   passes, firstRun>>

\* the clustering loop is over and analyzePages returns
ClusteringDone ==
    /\ mainPc = "cluster"
    /\ visited = DOMAIN pages
    /\ passes' = passes + 1
    /\ trace' = Append(trace, "analyzePages")
    /\ Continue("report")
    /\ UNCHANGED <<restVars, tempDir, pages, clusters, visited, firstRun>>

\* analyzePages is run once more on the session
AnalyzePagesAgain ==
    /\ mainPc = "report"
    /\ passes < MaxPasses
    /\ firstRun' = clusters
    /\ Continue("returned")
    /\ UNCHANGED <<restVars, trace, tempDir, pages, clusters, visited, passes>>

(* ------------------------- report and session ------------------------- *)
\* generateHTMLReport with main going on after a failure
generateHTMLReportIgnoresFailure ==
    /\ mainPc = "report"
    /\ \E outcome \in {"templateFailed", "reportOpenFailed", "renderFailed",
                         "report"} :
        /\ trace' = Append(trace, outcome)
        /\ Continue("save")
    /\ UNCHANGED <<restVars, tempDir, pages, clusters, visited, passes, firstRun>>

\* generateHTMLReport: a template that cannot be read, a report file that
\* cannot be opened and a failed render are fatal
generateHTMLReport ==
    /\ mainPc = "report"
    /\ \E outcome \in {"templateFailed", "reportOpenFailed", "renderFailed",
                         "report"} :
        /\ trace' = Append(trace, outcome)
        /\ IF outcome = "report" THEN Continue("save") ELSE Exit(1)
    /\ UNCHANGED <<restVars, tempDir, pages, clusters, visited, passes, firstRun>>

\* saveSessionAndPrintStats: Session.End, then SaveToFile, whose failure is
\* logged; main returns
saveSessionAndPrintStats ==
    /\ mainPc = "save"
    /\ \E saved \in BOOLEAN :
        trace' = trace \o <<"End", IF saved THEN "save" ELSE "saveFailed">>
    /\ Exit(0)
    /\ UNCHANGED <<restVars, tempDir, pages, clusters, visited, passes, firstRun>>

(***************************************************************************)
(* The scanning stage alone: the behaviours of the pipeline in which no    *)
(* URL handler has run yet.  The port scanner and the URL publisher read   *)
(* nothing that the later stages write, so the larger inputs of this       *)
(* specification show every state the two agents reach on them.            *)
(***************************************************************************)
InitScan == InitWith(MaxUnits)

NextScan ==
    \/ PublishSessionStart
    \/ PublishTarget
    \/ Sleep
    \/ WaitAsync
    \/ WaitGroupWait
    \/ PublishSessionEnd
    \/ \E id \in HandlerIds : HandlerStart(id)
    \/ \E i \in 1..MaxUnits : OnHost(i)
    \/ \E u \in Units : ScanAcquire(u)
    \/ \E u \in Units : ScanAttempt(u)
    \/ \E u \in Units : ScanRecord(u)
    \/ \E i \in 1..MaxUnits : ScansCompleted(i)
    \/ \E u \in Units : OnTCPPort(u)
    \/ OnSessionEnd

SpecScan == InitScan /\ [][NextScan]_vars

\* the same under a fair scheduler, with every lookup and dial returning:
\* a step that can be taken is taken in the end
FairScan == SpecScan /\ WF_vars(NextScan)

(***************************************************************************)
(* The dispatch of the targets: the scanning stage on every form of target *)
(* that standard input can give, with one configured port.                 *)
(***************************************************************************)
InitDispatch ==
    /\ targets \in DispatchLists
    /\ ports = <<8080>>
    /\ threadsFlag = 0
    /\ optThreads = ResolveThreads(threadsFlag)
    /\ InitPipeline
    /\ InitNoWriters

SpecDispatch == InitDispatch /\ [][NextScan]_vars

(***************************************************************************)
(* One Page and the goroutines that work on it at the same time: the       *)
(* agents calling AddHeader, AddTag and AddNote, and screenshotPage.       *)
(***************************************************************************)
InitPage ==
    /\ targets = <<TargetOf("http", 1)>>
    /\ ports = <<80, 443>>
    /\ threadsFlag = 0
    /\ optThreads = ResolveThreads(threadsFlag)
    /\ InitPipeline
    /\ pgOp \in [Writers -> PageOps]
    /\ pgPc = [g \in Writers |-> "call"]
    /\ pgLock = 0
    /\ pg = EmptyPage

pipelineVars ==
    <<configVars, mainPc, nextTarget, awaited, handler, published, wg,
      scanVars, pubVars, reqPc, pages, shotPc, screenshotSuccessful,
      screenshotFailed, tempDir, chromeRan, mainVars>>

\* p.Lock() of AddHeader, AddTag and AddNote
PageLock(g) ==
    /\ pgOp[g] \in {"AddHeader", "AddTag", "AddNote"}
    /\ pgPc[g] = "call"
    /\ pgLock = 0
    /\ pgLock' = g
    /\ pgPc' = [pgPc EXCEPT ![g] = "locked"]
    /\ UNCHANGED <<pipelineVars, pgOp, pg>>

\* the append of AddHeader, AddTag and AddNote; the item is named after
\* the goroutine adding it
PageAppend(g) ==
    /\ pgPc[g] = "locked"
    /\ pg' = CASE pgOp[g] = "AddHeader" ->
                    [pg EXCEPT !.Headers = Append(@, g)]
               [] pgOp[g] = "AddTag" -> [pg EXCEPT !.Tags = Append(@, g)]
               [] pgOp[g] = "AddNote" -> [pg EXCEPT !.Notes = Append(@, g)]
    /\ pgPc' = [pgPc EXCEPT ![g] = "appended"]
    /\ UNCHANGED <<pipelineVars, pgOp, pgLock>>

\* the deferred p.Unlock()
PageUnlock(g) ==
    /\ pgPc[g] = "appended"
    /\ pgLock' = 0
    /\ pgPc' = [pgPc EXCEPT ![g] = "done"]
    /\ UNCHANGED <<pipelineVars, pgOp, pg>>

\* screenshotPage after a successful run: page.ScreenshotPath = filePath
SetScreenshotPath(g) ==
    /\ pgOp[g] = "screenshotPage"
    /\ pgPc[g] = "call"
    /\ pg' = [pg EXCEPT !.ScreenshotPath = "screenshots/page.png"]
    /\ pgPc' = [pgPc EXCEPT ![g] = "pathSet"]
    /\ UNCHANGED <<pipelineVars, pgOp, pgLock>>

\* page.HasScreenshot = true
SetHasScreenshot(g) ==
    /\ pgPc[g] = "pathSet"
    /\ pg' = [pg EXCEPT !.HasScreenshot = TRUE]
    /\ pgPc' = [pgPc EXCEPT ![g] = "done"]
    /\ UNCHANGED <<pipelineVars, pgOp, pgLock>>

NextPage ==
    \/ \E g \in Writers : PageLock(g)
    \/ \E g \in Writers : PageAppend(g)
    \/ \E g \in Writers : PageUnlock(g)
    \/ \E g \in Writers : SetScreenshotPath(g)
    \/ \E g \in Writers : SetHasScreenshot(g)

SpecPage == InitPage /\ [][NextPage]_vars

(***************************************************************************)
(* main from its first statement to the end of the process, on an empty    *)
(* target list and on one URL target; no host is scanned, so the actions   *)
(* of the port scanner and of the URL publisher are never enabled.         *)
(***************************************************************************)
\* page structures: sequences of depth:tag tokens
StructA == <<1, 2, 3, 4, 5>>
StructB == <<1, 2, 3, 4, 6>>
StructC == <<1, 2, 3, 7, 6>>
StructD == <<8, 9>>

Structures == {StructA, StructB, StructC, StructD}

\* standard input: nothing, a line without a target, a line with a URL,
\* two lines with the same URL
MainInputs ==
    {<<>>, <<<<>>>>, <<<<TargetOf("http", 1)>>>>,
     <<<<TargetOf("http", 1)>>, <<TargetOf("http", 1)>>>>}

\* values of --screenshot-timeout
ScreenshotTimeouts == {1000, DefaultScreenshotTimeout}

InitMain ==
    /\ targets = <<>>
    /\ stdin \in MainInputs
    /\ ports = <<80, 443>>
    /\ threadsFlag = 0
    /\ optThreads = ResolveThreads(threadsFlag)
    /\ screenshotTimeout \in ScreenshotTimeouts
    /\ version \in BOOLEAN
    /\ sessionPath \in BOOLEAN
    /\ bodyFile \in {[u \in ClusterURLs |-> <<>>],
                      [u \in ClusterURLs |-> <<StructA>>]}
    /\ mainPc = "newSession"
    /\ tempDir = FALSE
    /\ trace = <<>>
    /\ pages = <<>>
    /\ InitAgents
    /\ InitNoWriters

NextMain ==
    \/ NewSession
    \/ handleInitialSetup
    \/ loadSessionAndGenerateReport
    \/ registerAgents
    \/ readAndParseTargets
    \/ PublishSessionStart
    \/ PublishTarget
    \/ Sleep
    \/ WaitAsync
    \/ WaitGroupWait
    \/ PublishSessionEnd
    \/ \E id \in HandlerIds : HandlerStart(id)
    \/ \E u \in Units : OnURL(u)
    \/ \E u \in Units : Request(u)
    \/ \E u \in Units : OnURLResponsive(u)
    \/ \E u \in Units : ScreenshotPage(u)
    \/ OnSessionEnd
    \/ CalculateStructures
    \/ \E url \in ClusterURLs : ClusterPage(url)
    \/ ClusteringDone
    \/ generateHTMLReport
    \/ saveSessionAndPrintStats

SpecMain == InitMain /\ [][NextMain]_vars

(***************************************************************************)
(* analyzePages on a session whose pages are given, run up to MaxPasses    *)
(* times.                                                                  *)
(***************************************************************************)
InitCluster ==
    /\ targets = <<TargetOf("http", 1)>>
    /\ ports = <<80, 443>>
    /\ threadsFlag = 0
    /\ optThreads = ResolveThreads(threadsFlag)
    /\ screenshotTimeout = DefaultScreenshotTimeout
    /\ version = FALSE
    /\ sessionPath = FALSE
    /\ \E P \in SUBSET ClusterURLs :
        /\ pages = [url \in P |-> NewPage(url)]
        /\ bodyFile \in [ClusterURLs -> {<<>>} \cup {<<st>> : st \in Structures}]
        /\ \A url \in ClusterURLs \ P : bodyFile[url] = <<>>
    /\ mainPc = "returned"
    /\ stdin = <<targets>>
    /\ tempDir = FALSE
    /\ trace = <<"registerAgents", "readAndParseTargets">>
    /\ InitAgents
    /\ InitNoWriters

NextCluster ==
    \/ CalculateStructures
    \/ \E url \in ClusterURLs : ClusterPage(url)
    \/ ClusteringDone
    \/ AnalyzePagesAgain

SpecCluster == InitCluster /\ [][NextCluster]_vars

(***************************************************************************)
(* The screenshot goroutines of two pages with URLs of many shapes: each   *)
(* computes the file name of its page and stores the path on success.     *)
(***************************************************************************)
InitFilename ==
    /\ targets = <<TargetOf("http", 1)>>
    /\ ports = <<80, 443>>
    /\ threadsFlag = 0
    /\ optThreads = ResolveThreads(threadsFlag)
    /\ DefaultOptions
    /\ mainPc = "wgWait1"
    /\ stdin = <<targets>>
    /\ tempDir = TRUE
    /\ trace = <<"registerAgents", "readAndParseTargets">>
    /\ \E url1 \in FilenameURLs : \E url2 \in FilenameURLs \ {url1} :
        /\ urlArg = [u \in Units |-> IF u = U(1) THEN url1
                                     ELSE IF u = U(2) THEN url2 ELSE ""]
        /\ pages = (url1 :> NewPage(url1)) @@ (url2 :> NewPage(url2))
    /\ shotPc = [u \in Units |-> IF u \in {U(1), U(2)} THEN "chrome" ELSE "none"]
    /\ wg = 2
    /\ handler = [id \in HandlerIds |->
                     IF id \in {<<"OnURLResponsive", U(1)>>,
                                <<"OnURLResponsive", U(2)>>}
                     THEN "done" ELSE "none"]
    /\ published = [e \in Topics \X Units |->
                       IF e \in {<<"URLResponsive", U(1)>>,
                                 <<"URLResponsive", U(2)>>}
                       THEN 1 ELSE 0]
    /\ nextTarget = 1
    /\ awaited = {}
    /\ dns = [i \in 1..MaxUnits |-> "none"]
    /\ scanPc = [u \in Units |-> "none"]
    /\ results = [u \in Units |-> <<>>]
    /\ scanWorker = 0
    /\ portOpen = 0
    /\ portClosed = 0
    /\ classified = [u \in Units |-> "none"]
    /\ waitPc = [i \in 1..MaxUnits |-> "none"]
    /\ probe = [u \in Units |-> "none"]
    /\ reqPc = [u \in Units |-> "none"]
    /\ screenshotSuccessful = 0
    /\ screenshotFailed = 0
    /\ chromeRan = [u \in Units |-> 0]
    /\ exitCode = NoExit
    /\ clusters = <<>>
    /\ visited = {}
    /\ passes = 0
    /\ firstRun = <<>>
    /\ InitNoWriters

NextFilename == \E u \in Units : ScreenshotPage(u)

SpecFilename == InitFilename /\ [][NextFilename]_vars

(***************************************************************************)
(* One goroutine and one header: it calls AddHeader on an empty Page, or   *)
(* SetSecurityFlags on a header whose flags have any values.  With one     *)
(* goroutine the mutex is free, and a call is one step.                    *)
(***************************************************************************)
InitHeader ==
    /\ targets = <<TargetOf("http", 1)>>
    /\ ports = <<80, 443>>
    /\ threadsFlag = 0
    /\ optThreads = ResolveThreads(threadsFlag)
    /\ InitPipeline
    /\ pgOp \in [Writers -> {"none", "AddHeader", "SetSecurityFlags"}]
    /\ pgOp[1] # "none"
    /\ \A g \in Writers \ {1} : pgOp[g] = "none"
    /\ pgPc = [g \in Writers |-> IF g = 1 THEN "call" ELSE "done"]
    /\ pgLock = 0
    /\ \E hs \in {<<>>} \cup {<<h>> : h \in Headers} :
        /\ pg = [EmptyPage EXCEPT !.Headers = hs]
        /\ (hs = <<>>) = (pgOp[1] = "AddHeader")

\* Page.AddHeader
AddHeader(g, name, value) ==
    /\ pgOp[g] = "AddHeader"
    /\ pgPc[g] = "call"
    /\ pgLock = 0
    /\ pg' = [pg EXCEPT !.Headers =
                 Append(@, SetSecurityFlags(NewHeader(name, value)))]
    /\ pgPc' = [pgPc EXCEPT ![g] = "done"]
    /\ UNCHANGED <<pipelineVars, pgOp, pgLock>>

\* h.SetSecurityFlags() on the header of the page
CallSetSecurityFlags(g) ==
    /\ pgOp[g] = "SetSecurityFlags"
    /\ pgPc[g] = "call"
    /\ pg' = [pg EXCEPT !.Headers[1] = SetSecurityFlags(@)]
    /\ pgPc' = [pgPc EXCEPT ![g] = "done"]
    /\ UNCHANGED <<pipelineVars, pgOp, pgLock>>

NextHeader ==
    \/ \E g \in Writers, name \in HeaderNames, value \in HeaderValues :
           AddHeader(g, name, value)
    \/ \E g \in Writers : CallSetSecurityFlags(g)

SpecHeader == InitHeader /\ [][NextHeader]_vars

(***************************************************************************)
(* The goroutines of the Page specification each calling AddTag once; the  *)
(* mutex makes the calls follow one another, and a call is one step.       *)
(***************************************************************************)
InitTag ==
    /\ targets = <<TargetOf("http", 1)>>
    /\ ports = <<80, 443>>
    /\ threadsFlag = 0
    /\ optThreads = ResolveThreads(threadsFlag)
    /\ InitPipeline
    /\ pgOp = [g \in Writers |-> "AddTag"]
    /\ pgPc = [g \in Writers |-> "call"]
    /\ pgLock = 0
    /\ pg = EmptyPage

\* Page.AddTag
AddTag(g, text, tagType, link) ==
    /\ pgOp[g] = "AddTag"
    /\ pgPc[g] = "call"
    /\ pgLock = 0
    /\ pg' = [pg EXCEPT !.Tags =
                 Append(@, [Text |-> text, Type |-> tagType, Link |-> link,
                            Hash |-> Sha1Hex(text \o tagType \o link)])]
    /\ pgPc' = [pgPc EXCEPT ![g] = "done"]
    /\ UNCHANGED <<pipelineVars, pgOp, pgLock>>

NextTag ==
    \E g \in Writers, text \in TagTexts, tagType \in TagTypes,
       link \in TagLinks : AddTag(g, text, tagType, link)

SpecTag == InitTag /\ [][NextTag]_vars

(***************************************************************************)
(* The calls of scanPort by one port-scan goroutine, each recorded with    *)
(* what the network did: results holds, instead of the bare answers, the   *)
(* outcomes of the dial, of SetReadDeadline and of the read with the       *)
(* answer.                                                                 *)
(***************************************************************************)
ScannedUnit == <<1, 80>>

InitScanPort ==
    /\ targets = <<TargetOf("", 1)>>
    /\ ports = <<80, 443>>
    /\ threadsFlag = 1
    /\ optThreads = threadsFlag
    /\ DefaultOptions
    /\ mainPc = "wgWait1"
    /\ stdin = <<targets>>
    /\ tempDir = TRUE
    /\ trace = <<"registerAgents", "readAndParseTargets">>
    /\ pages = <<>>
    /\ nextTarget = 2
    /\ awaited = {}
    /\ handler = [id \in HandlerIds |->
                     IF id = <<"OnHost", U(1)>> THEN "done" ELSE "none"]
    /\ published = [e \in Topics \X Units |->
                       IF e = <<"Host", U(1)>> THEN 1 ELSE 0]
    /\ wg = 2
    /\ dns = [i \in 1..MaxUnits |-> IF i = 1 THEN "ok" ELSE "none"]
    /\ scanPc = [u \in Units |->
                    IF u = ScannedUnit THEN "scan"
                    ELSE IF u = <<1, 443>> THEN "acquire" ELSE "none"]
    /\ results = [u \in Units |-> <<>>]
    /\ scanWorker = 1
    /\ portOpen = 0
    /\ portClosed = 0
    /\ classified = [u \in Units |-> "none"]
    /\ waitPc = [i \in 1..MaxUnits |-> IF i = 1 THEN "waiting" ELSE "none"]
    /\ probe = [u \in Units |-> "none"]
    /\ urlArg = [u \in Units |-> ""]
    /\ reqPc = [u \in Units |-> "none"]
    /\ shotPc = [u \in Units |-> "none"]
    /\ screenshotSuccessful = 0
    /\ screenshotFailed = 0
    /\ chromeRan = [u \in Units |-> 0]
    /\ exitCode = NoExit
    /\ clusters = <<>>
    /\ visited = {}
    /\ passes = 0
    /\ firstRun = <<>>
    /\ InitNoWriters

\* a call of scanPort, recorded with the outcomes it met
ScanPortCall(u) ==
    /\ scanPc[u] = "scan"
    /\ Len(results[u]) < MaxAttempts
    /\ \E dial \in DialOutcomes, deadlineOk \in BOOLEAN, read \in ReadOutcomes :
        results' = [results EXCEPT ![u] =
            Append(@, [dial |-> dial, deadlineOk |-> deadlineOk,
                       read |-> read,
                       open |-> scanPort(dial, deadlineOk, read)])]
    /\ UNCHANGED <<configVars, mainVars, mainPc, nextTarget, awaited, handler,
                   published, wg, dns, scanPc, scanWorker, portOpen,
                   portClosed, classified, waitPc, pubVars, pageVars>>

NextScanPort == \E u \in Units : ScanPortCall(u)

SpecScanPort == InitScanPort /\ [][NextScanPort]_vars

(***************************************************************************)
(* readAndParseTargets on every standard input of up to MaxLines lines     *)
(* with up to MaxMatches targets each, and the first Publish of            *)
(* processTargets after it.                                                *)
(***************************************************************************)
MaxLines == 2

MaxMatches == 2

\* the strings xurls.Relaxed finds
Matches == {"a", "http://b"}

InputLines == UNION {[1..n -> Matches] : n \in 0..MaxMatches}

Inputs == UNION {[1..n -> InputLines] : n \in 0..MaxLines}

InitParse ==
    /\ targets = <<>>
    /\ stdin \in Inputs
    /\ ports = <<80, 443>>
    /\ threadsFlag = 0
    /\ optThreads = ResolveThreads(threadsFlag)
    /\ DefaultOptions
    /\ mainPc = "read"
    /\ tempDir = TRUE
    /\ trace = <<"registerAgents">>
    /\ pages = <<>>
    /\ InitAgents
    /\ InitNoWriters

NextParse ==
    \/ readAndParseTargets
    \/ PublishSessionStart

SpecParse == InitParse /\ [][NextParse]_vars

(***************************************************************************)
(* The goroutines of the agents calling AddHeader, AddTag and AddNote on   *)
(* one Page at the same time, with their arguments.  The statement         *)
(* p.X = append(p.X, item) is a load of the slice and a store of the       *)
(* longer one; pgOp holds the call of a goroutine and the slice it loaded. *)
(***************************************************************************)
\* the calls a goroutine makes: the method, its arguments (c: the link of
\* AddTag) and the slice it has loaded
WriterCalls ==
    [op : {"AddHeader"}, a : {"Server", "X-XSS-Protection"},
     b : {"0", "1; mode=block"}, c : {""}, seen : {<<>>}]
    \cup [op : {"AddTag"}, a : {"a"}, b : {"c", "info"}, c : {""},
          seen : {<<>>}]
    \cup [op : {"AddNote"}, a : {"ab"}, b : {"info"}, c : {""},
          seen : {<<>>}]

InitWriters ==
    /\ targets = <<TargetOf("http", 1)>>
    /\ ports = <<80, 443>>
    /\ threadsFlag = 0
    /\ optThreads = ResolveThreads(threadsFlag)
    /\ InitPipeline
    /\ pgOp \in [Writers -> WriterCalls]
    /\ pgPc = [g \in Writers |-> "call"]
    /\ pgLock = 0
    /\ pg = EmptyPage

\* the list of the Page a method appends to
ListOf(page, op) ==
    CASE op = "AddHeader" -> page.Headers
      [] op = "AddTag" -> page.Tags
      [] op = "AddNote" -> page.Notes

\* the item a call builds: the Header with its flags set, the Tag with its
\* hash, the Note
WriterItem(call) ==
    CASE call.op = "AddHeader" ->
            SetSecurityFlags(NewHeader(call.a, call.b))
      [] call.op = "AddTag" ->
            [Text |-> call.a, Type |-> call.b, Link |-> call.c,
             Hash |-> Sha1Hex(call.a \o call.b \o call.c)]
      [] call.op = "AddNote" -> [Text |-> call.a, Type |-> call.b]

\* a call going on without taking the mutex
WriterLockSkipsMutex(g) ==
    /\ pgPc[g] = "call"
    /\ pgPc' = [pgPc EXCEPT ![g] = "locked"]
    /\ UNCHANGED <<pipelineVars, pgOp, pgLock, pg>>

\* p.Lock()
WriterLock(g) ==
    /\ pgPc[g] = "call"
    /\ pgLock = 0
    /\ pgLock' = g
    /\ pgPc' = [pgPc EXCEPT ![g] = "locked"]
    /\ UNCHANGED <<pipelineVars, pgOp, pg>>

\* append(p.X, item): the load of the slice
WriterLoad(g) ==
    /\ pgPc[g] = "locked"
    /\ pgOp' = [pgOp EXCEPT ![g].seen = ListOf(pg, pgOp[g].op)]
    /\ pgPc' = [pgPc EXCEPT ![g] = "loaded"]
    /\ UNCHANGED <<pipelineVars, pgLock, pg>>

\* p.X = append(...): the store of the slice with the item at its end
WriterStore(g) ==
    /\ pgPc[g] = "loaded"
    /\ LET list == Append(pgOp[g].seen, WriterItem(pgOp[g]))
       IN  pg' = CASE pgOp[g].op = "AddHeader" -> [pg EXCEPT !.Headers = list]
                   [] pgOp[g].op = "AddTag" -> [pg EXCEPT !.Tags = list]
                   [] pgOp[g].op = "AddNote" -> [pg EXCEPT !.Notes = list]
    /\ pgPc' = [pgPc EXCEPT ![g] = "stored"]
    /\ UNCHANGED <<pipelineVars, pgOp, pgLock>>

\* the deferred p.Unlock(); the method returns
WriterUnlock(g) ==
    /\ pgPc[g] = "stored"
    /\ pgLock' = 0
    /\ pgPc' = [pgPc EXCEPT ![g] = "done"]
    /\ UNCHANGED <<pipelineVars, pgOp, pg>>

NextWriters ==
    \/ \E g \in Writers : WriterLock(g)
    \/ \E g \in Writers : WriterLoad(g)
    \/ \E g \in Writers : WriterStore(g)
    \/ \E g \in Writers : WriterUnlock(g)

SpecWriters == InitWriters /\ [][NextWriters]_vars

(***************************************************************************)
(* The screenshotter alone: two URLResponsive events are queued, each with *)
(* a URL for which the session holds a Page or holds none.                 *)
(***************************************************************************)
ResponsiveURLs == {"http://a", "http://b"}

InitResponsive ==
    /\ targets = <<TargetOf("http", 1)>>
    /\ ports = <<80, 443>>
    /\ threadsFlag = 0
    /\ optThreads = ResolveThreads(threadsFlag)
    /\ DefaultOptions
    /\ mainPc = "wgWait1"
    /\ stdin = <<targets>>
    /\ tempDir = TRUE
    /\ trace = <<"registerAgents", "readAndParseTargets">>
    /\ \E url1 \in ResponsiveURLs, url2 \in ResponsiveURLs :
        urlArg = [u \in Units |-> IF u = U(1) THEN url1
                                  ELSE IF u = U(2) THEN url2 ELSE ""]
    /\ \E P \in SUBSET ResponsiveURLs : pages = [url \in P |-> NewPage(url)]
    /\ shotPc = [u \in Units |-> "none"]
    /\ wg = 0
    /\ handler = [id \in HandlerIds |->
                     IF id \in {<<"OnURLResponsive", U(1)>>,
                                <<"OnURLResponsive", U(2)>>}
                     THEN "queued" ELSE "none"]
    /\ published = [e \in Topics \X Units |->
                       IF e \in {<<"URLResponsive", U(1)>>,
                                 <<"URLResponsive", U(2)>>}
                       THEN 1 ELSE 0]
    /\ nextTarget = 1
    /\ awaited = {}
    /\ dns = [i \in 1..MaxUnits |-> "none"]
    /\ scanPc = [u \in Units |-> "none"]
    /\ results = [u \in Units |-> <<>>]
    /\ scanWorker = 0
    /\ portOpen = 0
    /\ portClosed = 0
    /\ classified = [u \in Units |-> "none"]
    /\ waitPc = [i \in 1..MaxUnits |-> "none"]
    /\ probe = [u \in Units |-> "none"]
    /\ reqPc = [u \in Units |-> "none"]
    /\ screenshotSuccessful = 0
    /\ screenshotFailed = 0
    /\ chromeRan = [u \in Units |-> 0]
    /\ exitCode = NoExit
    /\ clusters = <<>>
    /\ visited = {}
    /\ passes = 0
    /\ firstRun = <<>>
    /\ InitNoWriters

NextResponsive ==
    \/ \E id \in HandlerIds : HandlerStart(id)
    \/ \E u \in Units : OnURLResponsive(u)
    \/ \E u \in Units : ScreenshotPage(u)

SpecResponsive == InitResponsive /\ [][NextResponsive]_vars

(***************************************************************************)
(*                              The claims                                 *)
(***************************************************************************)
\* a goroutine an agent started and that has not ended
ScanRunning == {u \in Units : scanPc[u] \in {"acquire", "scan", "record"}}
RequestRunning == {u \in Units : reqPc[u] = "request"}
ScreenshotRunning == {u \in Units : shotPc[u] = "chrome"}

\* the port-scan goroutines holding a slot of a.scanWorker
Holders == {u \in Units : scanPc[u] \in {"scan", "record"}}

\* no handler is queued or running and no goroutine is in flight
Quiescent ==
    /\ \A id \in HandlerIds : handler[id] \in {"none", "done"}
    /\ ScanRunning = {}
    /\ RequestRunning = {}
    /\ ScreenshotRunning = {}

\* C1: when processTargets has returned, no handler is queued or running
\* and no spawned goroutine is in flight.
C1_QuiescentOnReturn == mainPc = "returned" => Quiescent

\* C2: the wait-group count is never negative and equals the number of
\* goroutines the agents started (one Add each, before the start) that have
\* not ended (one Done each).
C2_WaitGroupCounts ==
    /\ wg >= 0
    /\ wg = Cardinality(ScanRunning) + Cardinality(RequestRunning)
              + Cardinality(ScreenshotRunning)

\* a port-scan goroutine has ended while the screenshot goroutine of its
\* unit runs, and the count is the one goroutine still running
C2_Witness ==
    \E u \in Units :
        scanPc[u] = "done" /\ shotPc[u] = "chrome" /\ reqPc[u] = "done" /\ wg = 1

C4_WritesHoldMutex ==
    \A g \in Writers : pgPc[g] \in {"locked", "appended", "pathSet"} => pgLock = g

\* C5: scanPort is called at most twice for a unit, a second time only after
\* a first call returned false, never again after a success, and the port is
\* logged open exactly if some call returned true.
C5_AtMostTwoAttempts ==
    \A u \in Units :
        /\ Len(results[u]) <= MaxAttempts
        /\ \A k \in 1..Len(results[u]) : results[u][k] => k = Len(results[u])
        /\ Len(results[u]) = 2 => ~results[u][1]
        /\ classified[u] = "open" => success(results[u])
        /\ classified[u] = "closed" => results[u] = <<FALSE, FALSE>>

\* a port found open by the second call, and one found closed after two
C5_Witness ==
    \E u, v \in Units :
        /\ results[u] = <<FALSE, TRUE>> /\ classified[u] = "open"
        /\ results[v] = <<FALSE, FALSE>> /\ classified[v] = "closed"

\* every Host event has been handled and every port-scan goroutine has ended
ScannerDrained ==
    /\ mainPc \notin {"start", "targets"}
    /\ \A i \in 1..MaxUnits : handler[<<"OnHost", U(i)>>] \in {"none", "done"}
    /\ ScanRunning = {}

Resolved == {i \in 1..MaxUnits : dns[i] = "ok"}

\* C6: each scanned port adds one to exactly one of PortOpen and PortClosed,
\* whatever the number of attempts; once the scanner has drained the two add
\* up to (hosts resolved) x (ports configured).
C6_OneCountPerPort ==
    /\ portOpen = Cardinality({u \in Units : classified[u] = "open"})
    /\ portClosed = Cardinality({u \in Units : classified[u] = "closed"})
    /\ \A u \in Units : (scanPc[u] = "done") = (classified[u] # "none")
    /\ ScannerDrained =>
           portOpen + portClosed = Cardinality(Resolved) * Len(ports)

\* the scanner has drained; a port that failed both attempts counts once
C6_Witness ==
    /\ ScannerDrained
    /\ \E u \in Units : results[u] = <<FALSE, FALSE>> /\ scanPc[u] = "done"
    /\ portClosed = 1
    /\ portOpen = 1

\* the units of the ports of host targets
ScanUnits == {u \in Units : u[1] \in 1..Len(targets) /\ u[2] # 0}

\* C7: TCPPort is published for a port exactly if it was logged open, and
\* then once; a closed port has no TCPPort event, no URLPublisher handler and
\* no URL event.
C7_EventOnlyWhenOpen ==
    \A u \in ScanUnits :
        /\ published[<<"TCPPort", u>>] =
               (IF classified[u] = "open" THEN 1 ELSE 0)
        /\ classified[u] # "open" =>
               /\ handler[<<"OnTCPPort", u>>] = "none"
               /\ published[<<"URL", u>>] = 0
               /\ urlArg[u] = ""

\* one port is closed and stays without events, another is open and has
\* its URL
C7_Witness ==
    \E u, v \in ScanUnits :
        /\ classified[u] = "closed" /\ scanPc[u] = "done"
        /\ classified[v] = "open" /\ published[<<"URL", v>>] = 1

\* the state of the port scans of target i
ScanState(i) ==
    [p \in PortUniverse |->
        <<scanPc[<<i, p>>], results[<<i, p>>], classified[<<i, p>>],
          published[<<"TCPPort", <<i, p>>>>]>>]

\* C8: the step in which the lookup of a host fails changes neither the
\* wait-group count nor a counter, starts no goroutine and publishes
\* nothing; the host never has a port scan, and the scans of the other
\* hosts are as they were.
C8_LookupFailureStops ==
    /\ [][\A i \in 1..MaxUnits :
            (dns[i] = "none" /\ dns'[i] = "fail") =>
                /\ wg' = wg
                /\ portOpen' = portOpen /\ portClosed' = portClosed
                /\ scanPc' = scanPc /\ results' = results
                /\ waitPc' = waitPc
                /\ published' = published]_vars
    /\ [](\A i \in 1..MaxUnits :
            dns[i] = "fail" =>
                /\ waitPc[i] = "none"
                /\ \A p \in PortUniverse :
                       ScanState(i)[p] = <<"none", <<>>, "none", 0>>)

\* the lookup of one host failed and a port of another host was scanned
C8_Witness ==
    \E i, j \in 1..MaxUnits :
        /\ dns[i] = "fail"
        /\ dns[j] = "ok"
        /\ \E p \in PortUniverse : classified[<<j, p>>] = "open"

\* the scheme of a URL
UrlScheme(url) ==
    IF Len(url) >= 8 /\ SubSeq(url, 1, 8) = "https://" THEN "https"
    ELSE IF Len(url) >= 7 /\ SubSeq(url, 1, 7) = "http://" THEN "http"
    ELSE ""

\* C9: for port 80 the scheme is http and for 443 https, without a TLS
\* dial; for any other port a dial is made and the scheme is https exactly
\* if it succeeded, http if it failed; the URL is published either way.
C9_SchemeInference ==
    \A u \in ScanUnits :
        handler[<<"OnTCPPort", u>>] = "done" =>
            /\ published[<<"URL", u>>] = 1
            /\ u[2] = 80 => probe[u] = "skipped" /\ UrlScheme(urlArg[u]) = "http"
            /\ u[2] = 443 =>
                   probe[u] = "skipped" /\ UrlScheme(urlArg[u]) = "https"
            /\ u[2] \notin {80, 443} =>
                   \/ probe[u] = "ok" /\ UrlScheme(urlArg[u]) = "https"
                   \/ probe[u] = "failed" /\ UrlScheme(urlArg[u]) = "http"

\* the dial to port 8080 of one host failed and that of another succeeded
C9_Witness ==
    \E u, v \in ScanUnits :
        /\ u[2] = 8080 /\ probe[u] = "failed"
        /\ urlArg[u] = "http://" \o TargetHost(u[1]) \o ":8080"
        /\ v[2] = 8080 /\ probe[v] = "ok"
        /\ urlArg[v] = "https://" \o TargetHost(v[1]) \o ":8080"

\* the canonical URL of a host, a port and a scheme
CanonicalURL(host, port, scheme) ==
    IF port = 80 /\ scheme = "http" THEN "http://" \o host
    ELSE IF port = 443 /\ scheme = "https" THEN "https://" \o host
    ELSE scheme \o "://" \o host \o ":" \o ToString(port)

\* C10: a handled TCPPort event has exactly one URL event, whose URL leaves
\* the port out when it is the default of the scheme and names it otherwise;
\* ports 80 and 443 of a host give http://<host> and https://<host>.
C10_OneCanonicalURL ==
    \A u \in ScanUnits :
        /\ published[<<"URL", u>>] <= 1
        /\ handler[<<"OnTCPPort", u>>] = "done" =>
            /\ published[<<"URL", u>>] = 1
            /\ UrlScheme(urlArg[u]) \in {"http", "https"}
            /\ urlArg[u] =
                   CanonicalURL(TargetHost(u[1]), u[2], UrlScheme(urlArg[u]))
            /\ u[2] = 80 => urlArg[u] = "http://" \o TargetHost(u[1])
            /\ u[2] = 443 => urlArg[u] = "https://" \o TargetHost(u[1])

\* ports 80 and 443 of host a are open and both URL events are out
C10_Witness ==
    /\ handler[<<"OnTCPPort", <<1, 80>>>>] = "done"
    /\ handler[<<"OnTCPPort", <<1, 443>>>>] = "done"
    /\ urlArg[<<1, 80>>] = "http://a"
    /\ urlArg[<<1, 443>>] = "https://a"
    /\ published[<<"URL", <<1, 80>>>>] = 1
    /\ published[<<"URL", <<1, 443>>>>] = 1

\* the screenshot goroutines that have ended
ShotDone == {u \in Units : shotPc[u] = "done"}

\* every URLResponsive event has been handled and no screenshot is running
ScreenshotsDrained ==
    /\ \A u \in Units : handler[<<"OnURLResponsive", u>>] \in {"none", "done"}
    /\ ScreenshotRunning = {}

\* the URLResponsive events whose page the session has
PagesFound ==
    {u \in Units : published[<<"URLResponsive", u>>] >= 1 /\ HasPage(urlArg[u])}

\* C11: a run of screenshotPage adds one to exactly one of the two counters;
\* on success it sets ScreenshotPath and HasScreenshot, on a failure to
\* start, a non-zero exit or a timeout it leaves the pages as they are; a
\* page with HasScreenshot has a path; after the drain the counters add up
\* to the number of URLResponsive events whose page was found.
C11_OneCounterPerScreenshot ==
    /\ [][\A u \in Units :
            (shotPc[u] = "chrome" /\ shotPc'[u] = "done") =>
                \/ /\ screenshotSuccessful' = screenshotSuccessful + 1
                   /\ screenshotFailed' = screenshotFailed
                   /\ chromeRan'[u] \in ChromeRunTimes
                   /\ chromeRan'[u] <= ScreenshotDeadline
                   /\ pages'[urlArg[u]].HasScreenshot
                   /\ pages'[urlArg[u]].ScreenshotPath # ""
                \/ /\ screenshotSuccessful' = screenshotSuccessful
                   /\ screenshotFailed' = screenshotFailed + 1
                   /\ pages' = pages]_vars
    /\ [](screenshotSuccessful + screenshotFailed = Cardinality(ShotDone))
    /\ [](\A url \in DOMAIN pages :
            pages[url].HasScreenshot => pages[url].ScreenshotPath # "")
    /\ [](\A u \in Units : published[<<"URLResponsive", u>>] <= 1)
    /\ [](ScreenshotsDrained =>
            screenshotSuccessful + screenshotFailed = Cardinality(PagesFound))

\* after the drain one screenshot was taken and one Chrome was killed at
\* the deadline
C11_Witness ==
    /\ ScreenshotsDrained
    /\ screenshotSuccessful = 1
    /\ screenshotFailed = 1
    /\ \E u \in Units : chromeRan[u] = ScreenshotDeadline
    /\ \E url \in DOMAIN pages : pages[url].HasScreenshot
    /\ \E url \in DOMAIN pages : ~pages[url].HasScreenshot

\* C12: no Chrome process runs longer than ScreenshotTimeout milliseconds:
\* it has exited by then or is killed at that instant.
C12_DeadlineIsOptionMs ==
    \A u \in Units : chromeRan[u] <= screenshotTimeout

\* an http or https URL
IsHttpURL(str) == HasPrefix(str, "http://") \/ HasPrefix(str, "https://")

\* C13: once the loop over the targets is over, every target has exactly
\* one initial event: URL(target) when it is an http or https URL,
\* Host(target) otherwise.
C13_OneEventPerTarget ==
    mainPc \notin {"start", "targets"} =>
        \A i \in 1..Len(targets) :
            IF IsHttpURL(targets[i])
            THEN /\ published[<<"URL", U(i)>>] = 1
                 /\ published[<<"Host", U(i)>>] = 0
            ELSE /\ published[<<"Host", U(i)>>] = 1
                 /\ published[<<"URL", U(i)>>] = 0

\* C14: after the run a target "h:p" that the Nmap parser produced has
\* exactly one TCPPort(p, h) event and no Host event.
C14_NmapTargetGivesTCPPort ==
    mainPc = "returned" =>
        \A i \in 1..Len(targets) :
            targets[i] \in NmapTargets =>
                /\ published[<<"TCPPort", <<i, 8080>>>>] = 1
                /\ published[<<"Host", U(i)>>] = 0

\* main is at or after registerAgents
PipelinePcs ==
    {"register", "read", "start", "targets", "sleep1", "waitAsync1",
     "wgWait1", "sessionEnd", "sleep2", "waitAsync2", "wgWait2", "returned",
     "cluster", "report", "save"}

\* the steps of a run of the pipeline
PipelineSteps ==
    {"registerAgents", "readAndParseTargets", "analyzePages", "urlsFileFailed",
     "End", "save", "saveFailed", "subscribeFailed", "tempDirFailed",
     "chromeMissing", "parseFailed", "noTargets"}

\* the fatal errors of main
FatalSteps ==
    {"sessionInitFailed", "outDirFailed", "sessionReadFailed",
     "sessionParseFailed", "templateFailed", "reportOpenFailed",
     "renderFailed", "subscribeFailed", "tempDirFailed", "chromeMissing",
     "parseFailed", "noTargets"}

Has(step) == \E k \in 1..Len(trace) : trace[k] = step

HasFatal == \E k \in 1..Len(trace) : trace[k] \in FatalSteps

\* C15: with --session no agent is registered, standard input is not read,
\* no event is published, no clustering runs and no session file is
\* written; the process ends with 0 after rendering the report (or printing
\* the version) and with 1 after an error.
C15_SessionOnlyRendersReport ==
    sessionPath =>
        /\ mainPc \notin PipelinePcs
        /\ \A k \in 1..Len(trace) : trace[k] \notin PipelineSteps
        /\ \A e \in Topics \X Units : published[e] = 0
        /\ \A id \in HandlerIds : handler[id] = "none"
        /\ ~tempDir /\ pages = <<>> /\ clusters = <<>> /\ passes = 0
        /\ mainPc = "exited" =>
               /\ (exitCode = 0) = (trace \in {<<"report">>, <<"version">>})
               /\ (exitCode = 1) = (Len(trace) = 1 /\ trace[1] \in FatalSteps)

\* with --session the report was rendered and the process ended with 0
C15_Witness ==
    sessionPath /\ mainPc = "exited" /\ exitCode = 0 /\ trace = <<"report">>

IsMilestone(step) == step \in {"analyzePages", "End", "report", "save"}

\* C17: in a run that reaches the end of main the session is marked
\* finished after the clustering and before the report is rendered, and it
\* is saved once, after the report.
C17_EndBeforeReport ==
    (mainPc = "exited" /\ Has("End")) =>
        SelectSeq(trace, IsMilestone) \in
            {<<"analyzePages", "End", "report", "save">>,
             <<"analyzePages", "End", "report">>}

\* the partition a list of clusters stands for
Partition(cs) ==
    {{cs[k][j] : j \in 1..Len(cs[k])} : k \in 1..Len(cs)}

\* no URL is twice in a cluster or in two clusters
NoRepeats(cs) ==
    \A k1, k2 \in 1..Len(cs) :
        \A j1 \in 1..Len(cs[k1]), j2 \in 1..Len(cs[k2]) :
            cs[k1][j1] = cs[k2][j2] => (k1 = k2 /\ j1 = j2)

\* C18: a run of the clustering loop starts from no clusters; after it no
\* URL is twice in a cluster or in two clusters, and a second run leaves
\* the partition of the first.
C18_ClusteringIdempotent ==
    /\ (mainPc = "cluster" /\ visited = {}) => clusters = <<>>
    /\ mainPc = "report" =>
           /\ NoRepeats(clusters)
           /\ passes = 2 => Partition(clusters) = Partition(firstRun)

\* C19: any two pages of a cluster are at least 0.80 similar; a page joins
\* a cluster only if it is that similar to every page in it, and forms a
\* new cluster of its own only if no cluster accepts it.
C19_ClusterPairsSimilar ==
    /\ [][\A url \in ClusterURLs :
            (url \notin visited /\ url \in visited') =>
                \/ \E k \in 1..Len(clusters) :
                       /\ Accepts(k, url)
                       /\ clusters' = [clusters EXCEPT ![k] = Append(@, url)]
                \/ /\ \A k \in 1..Len(clusters) : ~Accepts(k, url)
                   /\ clusters' = Append(clusters, <<url>>)]_vars
    /\ [](\A k \in 1..Len(clusters) :
            \A i, j \in 1..Len(clusters[k]) :
                GetSimilarity(StructureOf(clusters[k][i]),
                              StructureOf(clusters[k][j]))
                    >= SimilarityThreshold)

\* b joined the cluster of a, and c, similar to b and not to a, was
\* refused and is alone
C19_Witness ==
    /\ passes = 1
    /\ clusters = <<<<"http://a", "http://b">>, <<"http://c">>>>
    /\ StructureOf("http://a") = StructA
    /\ StructureOf("http://b") = StructB
    /\ StructureOf("http://c") = StructC

Min(S) == CHOOSE x \in S : \A y \in S : x <= y

\* the clusters of the pass that visits the pages in ascending order of
\* their URL and the clusters in the order of their creation
RECURSIVE SortedClustering(_, _)
SortedClustering(k, cs) ==
    IF k > Len(ClusterURLSeq) THEN cs
    ELSE IF ClusterURLSeq[k] \notin DOMAIN pages
         THEN SortedClustering(k + 1, cs)
    ELSE LET url == ClusterURLSeq[k]
             acc == {c \in 1..Len(cs) : AcceptsIn(cs, c, url)}
         IN  IF acc = {} THEN SortedClustering(k + 1, Append(cs, <<url>>))
             ELSE SortedClustering(k + 1,
                      [cs EXCEPT ![Min(acc)] = Append(@, url)])

\* C20: the partition after a clustering pass is the one that the pass in
\* ascending order of URL gives, whatever the order of iteration.
C20_PartitionIsFunctionOfPages ==
    (mainPc = "report" /\ passes = 1) =>
        Partition(clusters) = Partition(SortedClustering(1, <<>>))

Digits == {"0", "1", "2", "3", "4", "5", "6", "7", "8", "9"}

HexDigits == Digits \cup {"a", "b", "c", "d", "e", "f"}

AllIn(str, S) == \A i \in 1..Len(str) : Char(str, i) \in S

\* the position of the first occurrence of sub in str from i on, 0 if none
RECURSIVE IndexStr(_, _, _)
IndexStr(str, sub, i) ==
    IF i + Len(sub) - 1 > Len(str) THEN 0
    ELSE IF SubSeq(str, i, i + Len(sub) - 1) = sub THEN i
    ELSE IndexStr(str, sub, i + 1)

\* strings.Split
RECURSIVE Split(_, _)
Split(str, sep) ==
    LET k == IndexStr(str, sep, 1)
    IN  IF k = 0 THEN <<str>>
        ELSE <<SubSeq(str, 1, k - 1)>>
                 \o Split(SubSeq(str, k + Len(sep), Len(str)), sep)

\* the pages whose screenshot was stored
Shot == {url \in DOMAIN pages : pages[url].HasScreenshot}

\* the base file name in the stored path screenshots/<base>.png
StoredBase(url) ==
    LET path == pages[url].ScreenshotPath
    IN  SubSeq(path, Len("screenshots/") + 1, Len(path) - Len(".png"))

\* strings.LastIndexByte from position i down, counted from 1; 0: not found
RECURSIVE LastIndex(_, _, _)
LastIndex(str, ch, i) ==
    IF i < 1 THEN 0
    ELSE IF Char(str, i) = ch THEN i
    ELSE LastIndex(str, ch, i - 1)

\* the port of a host[:port], "" if there is none: what follows the last
\* colon, unless that colon is inside the brackets of an IPv6 literal
PortOf(host) ==
    LET k == LastIndex(host, ":", Len(host))
    IN  IF k = 0 \/ Contains(After(host, k), "]", 1) THEN ""
        ELSE After(host, k)

HostPort(url) == PortOf(Parse(url).Host)

\* ^[a-z]+__<host>__[0-9a-f]{16}$ with the host part over hostChars
MatchesBase(f, hostChars) ==
    LET j == Len(f) - 17
    IN  \E i \in 2..Len(f) :
            /\ AllIn(SubSeq(f, 1, i - 1), Letters)
            /\ SubSeq(f, i, i + 1) = "__"
            /\ j >= i + 3
            /\ AllIn(SubSeq(f, i + 2, j - 1), hostChars)
            /\ SubSeq(f, j, j + 1) = "__"
            /\ AllIn(SubSeq(f, j + 2, Len(f)), HexDigits)

\* lowercase, at least three parts, a last part of 16 characters, and the
\* value of another invocation
BaseShape(url) ==
    LET f == StoredBase(url)
        parts == Split(f, "__")
    IN  /\ f = ToLower(f)
        /\ Len(parts) >= 3
        /\ Len(parts[Len(parts)]) = 16
        /\ AllIn(parts[Len(parts)], HexDigits)
        /\ parts[Len(parts)] =
               SubSeq(Sha1Hex(Parse(url).Path \o Parse(url).Fragment), 1, 16)
        /\ f = BaseFilename(url)

\* the port segment of a URL with a port, the pattern of one without
BasePattern(url, hostChars) ==
    LET f == StoredBase(url)
        parts == Split(f, "__")
    IN  IF HostPort(url) # ""
        THEN Len(parts) >= 4 /\ parts[Len(parts) - 1] = HostPort(url)
        ELSE MatchesBase(f, hostChars)

\* a host name or IPv4 address, with or without a port
PlainHost(url) ==
    AllIn(ToLower(Parse(url).Host), Letters \cup Digits \cup {".", "-", ":"})

\* C21 as stated: for any URL the base file name is lowercase, has at least
\* 3 parts split on "__" with a last part of 16 characters, carries the
\* port as a segment of its own when the URL has one, matches
\* ^[a-z]+__[a-z0-9_]+__[0-9a-f]{16}$ when it has none, and is the same on
\* every invocation.
C21_BaseFilenamePattern ==
    \A url \in Shot :
        BaseShape(url) /\ BasePattern(url, Letters \cup Digits \cup {"_"})

\* C21 as amended: for any URL the base file name is lowercase, has at
\* least 3 parts split on "__" with a last part of 16 hex characters, and
\* is the same on every invocation; when the host is a host name or an
\* IPv4 address it carries the port as a segment of its own if the URL has
\* one and matches ^[a-z]+__[a-z0-9_-]+__[0-9a-f]{16}$ if it has none.
C21_BaseFilenameShape ==
    \A url \in Shot :
        /\ BaseShape(url)
        /\ PlainHost(url) =>
               BasePattern(url, Letters \cup Digits \cup {"_", "-"})

\* the screenshots of a URL with a port and of a URL with upper-case
\* letters were stored under the names the tests expect
C21_Witness ==
    /\ "http://example.com:8080/path" \in Shot
    /\ pages["http://example.com:8080/path"].ScreenshotPath =
           "screenshots/http__example_com__8080__4f26609ad3f5185f.png"
    /\ "http://EXAMPLE.com/Path" \in Shot
    /\ StoredBase("http://EXAMPLE.com/Path") =
           "http__example_com__da2d59abfc475d0c"

SameSite(url1, url2) ==
    /\ Parse(url1).Scheme = Parse(url2).Scheme
    /\ Parse(url1).Host = Parse(url2).Host

\* C22: two URLs with the same scheme and host that differ only in path
\* or fragment have different base file names.
C22_PathOrFragmentChangesName ==
    \A url1, url2 \in Shot :
        (/\ SameSite(url1, url2)
         /\ Parse(url1).RawQuery = Parse(url2).RawQuery
         /\ <<Parse(url1).Path, Parse(url1).Fragment>> #
                <<Parse(url2).Path, Parse(url2).Fragment>>)
            => StoredBase(url1) # StoredBase(url2)

\* C23: two URLs that differ only in the query string have the same base
\* file name.
C23_QueryIgnored ==
    \A url1, url2 \in Shot :
        (/\ SameSite(url1, url2)
         /\ Parse(url1).Path = Parse(url2).Path
         /\ Parse(url1).Fragment = Parse(url2).Fragment)
            => StoredBase(url1) = StoredBase(url2)

\* the screenshots of two URLs that differ in the query were stored
C23_Witness ==
    /\ {"http://h/ab?q=1", "http://h/ab?q=2"} \subseteq Shot
    /\ pages["http://h/ab?q=1"].ScreenshotPath =
           pages["http://h/ab?q=2"].ScreenshotPath

\* C24: every "." of the host is replaced by "_" and every ":" by "__",
\* so the base file name has no "." and no ":".
C24_NoDotNoColon ==
    \A url \in Shot :
        LET u == Parse(url)
            f == StoredBase(url)
        IN  /\ ~Contains(f, ".", 1)
            /\ ~Contains(f, ":", 1)
            /\ f = ToLower(u.Scheme \o "__"
                       \o Replace(Replace(u.Host, ":", "__", -1), ".", "_", -1)
                       \o "__"
                       \o SubSeq(Sha1Hex(u.Path \o u.Fragment), 1, 16))

\* the headers SetSecurityFlags has run on
Flagged ==
    IF pgOp[1] \in {"AddHeader", "SetSecurityFlags"} /\ pgPc[1] = "done"
    THEN {pg.Headers[k] : k \in 1..Len(pg.Headers)}
    ELSE {}

\* the headers of the page, flagged or not
Present ==
    IF pgOp[1] \in {"AddHeader", "SetSecurityFlags"}
    THEN {pg.Headers[k] : k \in 1..Len(pg.Headers)}
    ELSE {}

\* C25: after SetSecurityFlags the two flags are never both true and each
\* equals its predicate, whatever the flags were before; the two predicates
\* are never both true for a header; a header in neither table has both
\* flags false.
C25_FlagsExclusive ==
    /\ \A h \in Present : ~(decreasesSecurity(h) /\ increasesSecurity(h))
    /\ \A h \in Flagged :
        /\ ~(h.DecreasesSecurity /\ h.IncreasesSecurity)
        /\ h.DecreasesSecurity = decreasesSecurity(h)
        /\ h.IncreasesSecurity = increasesSecurity(h)
        /\ ToLower(h.Name) \notin
               degradingSecurityHeaders \cup increasingSecurityHeaders
              => ~h.DecreasesSecurity /\ ~h.IncreasesSecurity

\* SetSecurityFlags has run on an X-XSS-Protection header, which is in
\* both tables
C25_Witness ==
    /\ pgOp[1] = "SetSecurityFlags"
    /\ \E h \in Flagged :
           /\ h.Name = "X-XSS-Protection"
           /\ h.Value = "1; mode=block"
           /\ h.IncreasesSecurity
           /\ ~h.DecreasesSecurity

\* C26: headers whose names are equal ignoring case and whose values are
\* equal get the same flags; a header named server in any case decreases
\* security for every value.
C26_NameCaseIgnored ==
    \A h \in Flagged :
        /\ \A name \in HeaderNames :
               ToLower(name) = ToLower(h.Name) =>
                   LET h2 == SetSecurityFlags(NewHeader(name, h.Value))
                   IN  /\ h2.DecreasesSecurity = h.DecreasesSecurity
                       /\ h2.IncreasesSecurity = h.IncreasesSecurity
        /\ ToLower(h.Name) = "server" =>
               h.DecreasesSecurity /\ ~h.IncreasesSecurity

\* AddHeader has classified a header named SERVER as decreasing security
C26_Witness ==
    /\ pgOp[1] = "AddHeader"
    /\ \E h \in Flagged : h.Name = "SERVER" /\ h.DecreasesSecurity

\* C27: X-XSS-Protection increases security when its value starts with
\* "1" and decreases it for every other value; Access-Control-Allow-Origin
\* decreases security exactly for the value "*" and never increases it.
C27_ValueDependentHeaders ==
    \A h \in Flagged :
        /\ ToLower(h.Name) = "x-xss-protection" =>
               IF HasPrefix(h.Value, "1")
               THEN h.IncreasesSecurity /\ ~h.DecreasesSecurity
               ELSE h.DecreasesSecurity /\ ~h.IncreasesSecurity
        /\ ToLower(h.Name) = "access-control-allow-origin" =>
               /\ h.DecreasesSecurity = (h.Value = "*")
               /\ ~h.IncreasesSecurity

\* AddHeader has classified an X-XSS-Protection header with the empty
\* value as decreasing security
C27_Witness ==
    /\ pgOp[1] = "AddHeader"
    /\ \E h \in Flagged :
           /\ h.Name = "X-XSS-Protection"
           /\ h.Value = ""
           /\ h.DecreasesSecurity

\* C28: the Hash of a tag is the SHA-1 of text || type || link, and two
\* tags have the same Hash if and only if they have the same text, type
\* and link.
C28_HashIdentifiesTag ==
    pgOp = [g \in Writers |-> "AddTag"] =>
        \A i, j \in 1..Len(pg.Tags) :
            LET t1 == pg.Tags[i]
                t2 == pg.Tags[j]
            IN  /\ t1.Hash = Sha1Hex(t1.Text \o t1.Type \o t1.Link)
                /\ Len(t1.Hash) = 40
                /\ (t1.Hash = t2.Hash) =
                       (<<t1.Text, t1.Type, t1.Link>> =
                            <<t2.Text, t2.Type, t2.Link>>)

\* the recorded calls of scanPort
Calls ==
    IF mainPc = "wgWait1" /\ scanPc[ScannedUnit] = "scan"
    THEN {results[ScannedUnit][k] : k \in 1..Len(results[ScannedUnit])}
    ELSE {}

\* C29: scanPort reports the port open if and only if the dial and the
\* setting of the read deadline succeeded; the outcome of the read never
\* changes the answer.
C29_OpenIffDialAndDeadline ==
    \A r \in Calls :
        /\ r.open = (r.dial = "ok" /\ r.deadlineOk)
        /\ \A read \in ReadOutcomes :
               scanPort(r.dial, r.deadlineOk, read) = r.open

\* the port was reported open although the read failed, and closed after a
\* failure to set the read deadline
C29_Witness ==
    /\ \E r \in Calls :
           r.dial = "ok" /\ r.deadlineOk /\ r.read = "error" /\ r.open
    /\ \E r \in Calls : r.dial = "ok" /\ ~r.deadlineOk /\ ~r.open

\* C30: under a fair scheduler every port-scan goroutine that OnHost
\* started gets its slot, records its result and ends, and processTargets
\* returns, for every value of --threads.
C30_DrainTerminates ==
    <>(/\ mainPc = "returned"
       /\ \A u \in Units : scanPc[u] \in {"none", "done"})

\* C31: the temporary Chrome profile directory exists as long as a
\* screenshot goroutine runs: OnSessionEnd removes it only after every
\* URLResponsive event has been handled and its screenshot has finished.
C31_TempDirDuringScreenshot ==
    \A u \in Units : shotPc[u] = "chrome" => tempDir

\* C32: a process that created the temporary Chrome profile directory has
\* deleted it when it exits, on the normal path and on the fatal paths
\* after the screenshotter's Register created it.
C32_TempDirDeletedAtExit == mainPc = "exited" => ~tempDir

\* the number of Host and URL events the driver has published for target i
DriverEvents(pub, i) == pub[<<"Host", U(i)>>] + pub[<<"URL", U(i)>>]

SessionStarts(pub) == pub[<<"SessionStart", NoUnit>>]

SessionEnds(pub) == pub[<<"SessionEnd", NoUnit>>]

\* what a step may do to the events of the driver
DriverOrder ==
    /\ nextTarget' >= nextTarget
    /\ SessionStarts(published') # SessionStarts(published) =>
        /\ SessionStarts(published) = 0 /\ SessionStarts(published') = 1
        /\ \A i \in 1..MaxUnits : DriverEvents(published, i) = 0
        /\ SessionEnds(published) = 0
    /\ \A i \in 1..MaxUnits :
        DriverEvents(published', i) # DriverEvents(published, i) =>
            /\ DriverEvents(published, i) = 0 /\ DriverEvents(published', i) = 1
            /\ SessionStarts(published) = 1
            /\ i = nextTarget /\ nextTarget' = i + 1
            /\ SessionEnds(published) = 0
    /\ SessionEnds(published') # SessionEnds(published) =>
        /\ SessionEnds(published) = 0 /\ SessionEnds(published') = 1
        /\ nextTarget > Len(targets)
        /\ mainPc = "sessionEnd"
    /\ mainPc' = "returned" =>
        SessionStarts(published') = 1 /\ SessionEnds(published') = 1
    /\ SessionEnds(published) = 1 =>
        /\ SessionStarts(published') = SessionStarts(published)
        /\ \A i \in 1..MaxUnits :
            DriverEvents(published', i) = DriverEvents(published, i)

\* C33: processTargets publishes SessionStart once and before any Host or
\* URL event, the Host and URL events in the order of the target list,
\* SessionEnd once, after all of them and after the first sleep, WaitAsync
\* and WaitGroup.Wait have returned, and nothing after SessionEnd.
C33_DriverPublishOrder == [][DriverOrder]_vars

\* processTargets has returned after publishing the events of two targets
\* and SessionEnd
C33_Witness ==
    /\ mainPc = "returned"
    /\ Len(targets) = 2
    /\ \A i \in 1..2 : DriverEvents(published, i) = 1
    /\ SessionStarts(published) = 1
    /\ SessionEnds(published) = 1

\* OnURLResponsive returns in this step for a URL the session has no Page of
SkipsMissingPage(u) ==
    /\ handler[<<"OnURLResponsive", u>>] = "running"
    /\ handler'[<<"OnURLResponsive", u>>] = "done"
    /\ ~HasPage(urlArg[u])

\* C34: OnURLResponsive called with a URL the session has no Page of calls
\* no WaitGroup.Add, starts no goroutine and no Chrome process, and leaves
\* ScreenshotSuccessful, ScreenshotFailed and every Page unchanged.
C34_SkipsMissingPage ==
    [][\A u \in Units :
          SkipsMissingPage(u) =>
              UNCHANGED <<wg, shotPc, chromeRan, screenshotSuccessful,
                          screenshotFailed, pages>>]_vars

\* the handler of one event has returned for a URL without a Page, with no
\* goroutine started, while the other event's screenshot goroutine runs
C34_Witness ==
    /\ handler[<<"OnURLResponsive", U(1)>>] = "done"
    /\ ~HasPage(urlArg[U(1)])
    /\ shotPc[U(1)] = "none"
    /\ shotPc[U(2)] = "chrome"
    /\ wg = 1

\* the URLs the clusters hold
Clustered(cs) == UNION Partition(cs)

\* the clusters are a partition of the set S of URLs
PartitionOf(cs, S) ==
    /\ NoRepeats(cs)
    /\ Clustered(cs) = S
    /\ \A k \in 1..Len(cs) : Len(cs[k]) > 0

\* C35: in the first clustering pass, which starts from no clusters, the
\* clusters are a partition of the pages visited so far, and after it of
\* the session's pages, those without a readable body included.
C35_ClustersPartitionPages ==
    /\ (passes = 0 /\ mainPc = "cluster") => PartitionOf(clusters, visited)
    /\ (passes = 1 /\ mainPc = "report") =>
           PartitionOf(clusters, DOMAIN pages)

\* the first pass is over for three pages, one of them without a readable
\* body, and it has made more than one cluster
C35_Witness ==
    /\ passes = 1 /\ mainPc = "report"
    /\ Cardinality(DOMAIN pages) = 3
    /\ \E url \in DOMAIN pages : BodyOf(url) = <<>> /\ StructureOf(url) = <<>>
    /\ \E url \in DOMAIN pages : StructureOf(url) # <<>>
    /\ Len(clusters) >= 2

\* the goroutines whose call of the method op has returned
Returned(op) == {g \in Writers : pgOp[g].op = op /\ pgPc[g] = "done"}

\* the goroutines that made the same call as g and have returned
SameCall(g) ==
    {g2 \in Returned(pgOp[g].op) :
        pgOp[g2].a = pgOp[g].a /\ pgOp[g2].b = pgOp[g].b
            /\ pgOp[g2].c = pgOp[g].c}

\* an item of a list of the Page is the one the call of g adds
ItemOfCall(item, g) ==
    CASE pgOp[g].op = "AddHeader" ->
            item.Name = pgOp[g].a /\ item.Value = pgOp[g].b
      [] pgOp[g].op = "AddTag" ->
            item.Text = pgOp[g].a /\ item.Type = pgOp[g].b
                /\ item.Link = pgOp[g].c
      [] pgOp[g].op = "AddNote" ->
            item.Text = pgOp[g].a /\ item.Type = pgOp[g].b

\* how often the item of the call of g is in its list
Occurrences(g) ==
    LET list == ListOf(pg, pgOp[g].op)
    IN  Cardinality({k \in 1..Len(list) : ItemOfCall(list[k], g)})

AllReturned == \A g \in Writers : pgPc[g] = "done"

\* C36: when the concurrent AddHeader, AddTag and AddNote calls on a Page
\* have all returned, the Page holds one header, tag and note per call,
\* each added item as often as it was added (equal tags are all kept), and
\* every stored header carries its security flags.
C36_NoLostUpdate ==
    /\ AllReturned =>
        /\ \A op \in {"AddHeader", "AddTag", "AddNote"} :
               Len(ListOf(pg, op)) = Cardinality(Returned(op))
        /\ \A g \in Writers : Occurrences(g) = Cardinality(SameCall(g))
    /\ \A k \in 1..Len(pg.Headers) :
        /\ pg.Headers[k].DecreasesSecurity = decreasesSecurity(pg.Headers[k])
        /\ pg.Headers[k].IncreasesSecurity =
               (~decreasesSecurity(pg.Headers[k])
                    /\ increasesSecurity(pg.Headers[k]))

\* two goroutines have added the same tag and the Page holds it twice
C36_Witness ==
    /\ AllReturned
    /\ pgOp[1].op = "AddTag" /\ 2 \in SameCall(1)
    /\ Len(pg.Tags) = 2 /\ pg.Tags[1] = pg.Tags[2]

\* the targets found in standard input, in the order Parse meets them
RECURSIVE AllMatches(_)
AllMatches(lines) ==
    IF lines = <<>> THEN <<>> ELSE Head(lines) \o AllMatches(Tail(lines))

\* the place of the first occurrence of x in a sequence holding it
FirstIndex(seq, x) == Min({k \in 1..Len(seq) : seq[k] = x})

\* out holds the strings of found once each, in the order of their first
\* occurrences
DistinctInOrder(found, out) ==
    /\ \A i, j \in 1..Len(out) : out[i] = out[j] => i = j
    /\ {out[k] : k \in 1..Len(out)} = {found[k] : k \in 1..Len(found)}
    /\ \A i, j \in 1..Len(out) :
        i < j => FirstIndex(found, out[i]) < FirstIndex(found, out[j])

\* C37: RegexParser.Parse returns the distinct targets of the input in the
\* order of their first occurrences and never an error; an input without a
\* target gives the empty list, which ends the process with the fatal
\* 'no targets' before any event is published.
C37_DistinctTargetsInOrder ==
    /\ RegexParserParse(stdin).err = "nil"
    /\ DistinctInOrder(AllMatches(stdin), RegexParserParse(stdin).targets)
    /\ (Has("readAndParseTargets") /\ ~Has("parseFailed")) =>
        /\ targets = RegexParserParse(stdin).targets
        /\ DistinctInOrder(AllMatches(stdin), targets)
        /\ (AllMatches(stdin) = <<>>) = Has("noTargets")
        /\ Has("noTargets") =>
            /\ mainPc = "exited" /\ exitCode = 1
            /\ \A e \in Topics \X Units : published[e] = 0

\* two lines repeating a target within and across lines have been parsed
\* into two targets and processTargets has begun
C37_Witness ==
    /\ stdin = <<<<"http://b", "a">>, <<"http://b", "http://b">>>>
    /\ targets = <<"http://b", "a">>
    /\ mainPc = "targets"

============================================================================
